---- MODULE Spec2Model ----
(***************************************************************************)
(* Model of the crypgoals technical-analysis engine (analyseCandles and    *)
(* the indicator, structure, scoring and trade-plan code it calls).        *)
(*                                                                         *)
(* Numbers.  The engine computes in IEEE doubles.  The model computes in   *)
(* fixed point: every price, volume, percentage and score v is held as     *)
(* the integer round(v * SCALE), four decimals.  A product or quotient is  *)
(* rounded to the nearest unit (half up).  Multiplication by a decimal     *)
(* literal of the source (0.995, 1.5, ...) is written as numerator /       *)
(* denominator.  Products are taken in parts wherever the whole would not  *)
(* fit a 32-bit integer, so no operator wraps around.                      *)
(***************************************************************************)
EXTENDS Integers, Sequences, FiniteSets, TLC

(* ---------- fixed-point arithmetic ---------- *)

SCALE == 10000

Abs(x) == IF x < 0 THEN -x ELSE x

Max2(a, b) == IF a >= b THEN a ELSE b

Min2(a, b) == IF a <= b THEN a ELSE b

Max3(a, b, c) == Max2(a, Max2(b, c))

\* a / b rounded to the nearest integer, half up (b # 0)
RDiv(a, b) ==
  IF b > 0 THEN (a + b \div 2) \div b
           ELSE ((-a) + (-b) \div 2) \div (-b)

\* x * (num / den) for a decimal literal num/den of the source: the whole
\* multiples of den and the remainder are multiplied apart
Times(x, num, den) == (x \div den) * num + RDiv((x % den) * num, den)

\* << q, r >> with a * b = q * c + r and 0 <= r < c, for a, b >= 0 and c > 0,
\* by doubling
RECURSIVE MulDivMod(_, _, _)
MulDivMod(a, b, c) ==
  IF b = 0 THEN << 0, 0 >>
  ELSE LET h == MulDivMod(a, b \div 2, c)
           e == b % 2
           t == 2 * h[2] + e * (a % c)
       IN << 2 * h[1] + e * (a \div c) + t \div c, t % c >>

\* a * b / c rounded to the nearest integer, for a, b >= 0 and c > 0
MulDiv(a, b, c) ==
  LET qr == MulDivMod(a, b, c)
  IN qr[1] + (IF 2 * qr[2] >= c THEN 1 ELSE 0)

\* product of two fixed-point values
FMul(a, b) ==
  IF (a < 0) = (b < 0) THEN MulDiv(Abs(a), Abs(b), SCALE)
  ELSE -MulDiv(Abs(a), Abs(b), SCALE)

\* long division: q + r / b with k more decimal digits, rounded (0 <= r < b)
RECURSIVE LongDiv(_, _, _, _)
LongDiv(q, r, b, k) ==
  IF k = 0 THEN q + (IF 2 * r >= b THEN 1 ELSE 0)
  ELSE LongDiv(10 * q + (10 * r) \div b, (10 * r) % b, b, k - 1)

\* quotient of two fixed-point values (b > 0): a * SCALE / b
FDiv(a, b) == LongDiv(a \div b, a % b, b, 4)

\* (a / b) * 100 as a fixed-point value (b > 0): a * 100 * SCALE / b
Pct(a, b) == LongDiv(a \div b, a % b, b, 6)

clamp(value, min, max) == Max2(min, Min2(max, value))

\* the largest x in lo..hi with x * x <= v * SCALE
RECURSIVE ISqrtFrom(_, _, _)
ISqrtFrom(v, lo, hi) ==
  IF lo >= hi THEN lo
  ELSE LET mid == (lo + hi + 1) \div 2
           sq  == MulDivMod(mid, mid, SCALE)
       IN IF sq[1] < v \/ (sq[1] = v /\ sq[2] = 0)
          THEN ISqrtFrom(v, mid, hi) ELSE ISqrtFrom(v, lo, mid - 1)

\* Math.sqrt of a fixed-point value v >= 0: floor(sqrt(v * SCALE))
FSqrt(v) == ISqrtFrom(v, 0, Max2(v, SCALE))

(* ---------- sequence helpers ---------- *)

\* for (i = lo; i <= hi; i++) acc = Op(acc, i).  The loop is split in halves to
\* keep the evaluation depth logarithmic in its length; the test on left makes
\* the first half finish before the second half starts.
RECURSIVE FoldL(_, _, _, _)
FoldL(Op(_, _), lo, hi, acc) ==
  IF lo > hi THEN acc
  ELSE IF lo = hi THEN Op(acc, lo)
  ELSE LET mid  == (lo + hi) \div 2
           left == FoldL(Op, lo, mid, acc)
       IN IF left = left THEN FoldL(Op, mid + 1, hi, left) ELSE left

\* s.slice(lo, hi + 1).reduce((a, b) => a + b, 0)
SumRange(s, lo, hi) == FoldL(LAMBDA acc, i : acc + s[i], lo, hi, 0)

\* Math.max(...s.slice(lo, hi + 1)), lo <= hi
MaxRange(s, lo, hi) == FoldL(LAMBDA acc, i : Max2(acc, s[i]), lo + 1, hi, s[lo])

\* Math.min(...s.slice(lo, hi + 1)), lo <= hi
MinRange(s, lo, hi) == FoldL(LAMBDA acc, i : Min2(acc, s[i]), lo + 1, hi, s[lo])

\* values.slice(-k)
LastK(s, k) == IF Len(s) <= k THEN s ELSE SubSeq(s, Len(s) - k + 1, Len(s))

\* "number | null" and "object | null": null is NULL, a number v is Some(v), an
\* object carries the field null |-> FALSE
NULL == [null |-> TRUE]

Some(v) == [null |-> FALSE, val |-> v]

IsNull(x) == x.null

(* ---------- technical indicators ---------- *)

\* sma needing more than period values
smaStrictlyLonger(values, period) ==
  IF Len(values) <= period THEN NULL
  ELSE Some(RDiv(SumRange(values, Len(values) - period + 1, Len(values)), period))

sma(values, period) ==
  IF Len(values) < period THEN NULL
  ELSE Some(RDiv(SumRange(values, Len(values) - period + 1, Len(values)), period))

\* one step of the EMA recursion: value * k + prev * (1 - k), k = 2 / (period + 1)
EmaStep(prev, value, period) == RDiv(2 * value + (period - 1) * prev, period + 1)

\* ema needing more than period values
emaStrictlyLonger(values, period) ==
  IF Len(values) <= period THEN NULL
  ELSE Some(FoldL(LAMBDA prev, i : EmaStep(prev, values[i], period),
                  period + 1, Len(values), RDiv(SumRange(values, 1, period), period)))

ema(values, period) ==
  IF Len(values) < period THEN NULL
  ELSE Some(FoldL(LAMBDA prev, i : EmaStep(prev, values[i], period),
                  period + 1, Len(values), RDiv(SumRange(values, 1, period), period)))

emaSeries(values, period) ==
  IF Len(values) < period THEN << >>
  ELSE FoldL(LAMBDA result, i : Append(result, EmaStep(result[Len(result)], values[i], period)),
             period + 1, Len(values), << RDiv(SumRange(values, 1, period), period) >>)

\* Wilder step (prev * (period - 1) + x) / period
WilderStep(prev, x, period) == RDiv(prev * (period - 1) + x, period)

\* rsi answering 50 when there is no average loss
rsiNeutralWithoutLosses(values, period) ==
  IF Len(values) < period + 1 THEN NULL
  ELSE LET gains  == FoldL(LAMBDA acc, i :
                             IF values[i] - values[i - 1] >= 0
                             THEN acc + (values[i] - values[i - 1]) ELSE acc,
                           2, period + 1, 0)
           losses == FoldL(LAMBDA acc, i :
                             IF values[i] - values[i - 1] >= 0
                             THEN acc ELSE acc + Abs(values[i] - values[i - 1]),
                           2, period + 1, 0)
           avgGain == FoldL(LAMBDA acc, i :
                              WilderStep(acc, IF values[i] - values[i - 1] > 0
                                              THEN values[i] - values[i - 1] ELSE 0, period),
                            period + 2, Len(values), RDiv(gains, period))
           avgLoss == FoldL(LAMBDA acc, i :
                              WilderStep(acc, IF values[i] - values[i - 1] < 0
                                              THEN Abs(values[i] - values[i - 1]) ELSE 0, period),
                            period + 2, Len(values), RDiv(losses, period))
       \* rs = avgGain / avgLoss; 100 - 100 / (1 + rs) is
       \* 100 * avgGain / (avgGain + avgLoss)
       IN IF avgLoss = 0 THEN Some(50 * SCALE)
          ELSE Some(Pct(avgGain, avgGain + avgLoss))

rsi(values, period) ==
  IF Len(values) < period + 1 THEN NULL
  ELSE LET gains  == FoldL(LAMBDA acc, i :
                             IF values[i] - values[i - 1] >= 0
                             THEN acc + (values[i] - values[i - 1]) ELSE acc,
                           2, period + 1, 0)
           losses == FoldL(LAMBDA acc, i :
                             IF values[i] - values[i - 1] >= 0
                             THEN acc ELSE acc + Abs(values[i] - values[i - 1]),
                           2, period + 1, 0)
           avgGain == FoldL(LAMBDA acc, i :
                              WilderStep(acc, IF values[i] - values[i - 1] > 0
                                              THEN values[i] - values[i - 1] ELSE 0, period),
                            period + 2, Len(values), RDiv(gains, period))
           avgLoss == FoldL(LAMBDA acc, i :
                              WilderStep(acc, IF values[i] - values[i - 1] < 0
                                              THEN Abs(values[i] - values[i - 1]) ELSE 0, period),
                            period + 2, Len(values), RDiv(losses, period))
       \* rs = avgGain / avgLoss; 100 - 100 / (1 + rs) is
       \* 100 * avgGain / (avgGain + avgLoss)
       IN IF avgLoss = 0 THEN Some(100 * SCALE)
          ELSE Some(Pct(avgGain, avgGain + avgLoss))

\* TrueRange measuring the high against zero instead of the previous close
TrueRangeFromZero(candles, i) ==
  Max3(candles[i].high - candles[i].low,
       Abs(candles[i].high),
       Abs(candles[i].low - candles[i - 1].close))

\* true range of candle i against candle i-1
TrueRange(candles, i) ==
  Max3(candles[i].high - candles[i].low,
       Abs(candles[i].high - candles[i - 1].close),
       Abs(candles[i].low - candles[i - 1].close))

TrSeries(candles) ==
  FoldL(LAMBDA trs, i : Append(trs, TrueRange(candles, i)), 2, Len(candles), << >>)

\* Wilder smoothing of xs seeded with the mean of its first period values
WilderAvg(xs, period) ==
  FoldL(LAMBDA prev, i : WilderStep(prev, xs[i], period),
        period + 1, Len(xs), RDiv(SumRange(xs, 1, period), period))

atr(candles, period) ==
  IF Len(candles) < period + 1 THEN NULL
  ELSE Some(WilderAvg(TrSeries(candles), period))

\* alignment loop of macd: emaFast[i + offset] - emaSlow[i]
MacdValues(emaFast, emaSlow, offset) ==
  FoldL(LAMBDA macdValues, i :
          IF i + offset <= Len(emaFast)
          THEN Append(macdValues, emaFast[i + offset] - emaSlow[i]) ELSE macdValues,
        1, Len(emaSlow), << >>)

\* macd needing four signal periods of MACD values
macdFourSignalSpans(values, fast, slow, signal) ==
  IF Len(values) < slow + signal THEN NULL
  ELSE LET emaFast    == emaSeries(values, fast)
           emaSlow    == emaSeries(values, slow)
           macdValues == MacdValues(emaFast, emaSlow, slow - fast)
       IN IF Len(macdValues) < 4 * signal THEN NULL
          ELSE LET signalEma  == emaSeries(macdValues, signal)
                   lastMacd   == macdValues[Len(macdValues)]
                   lastSignal == signalEma[Len(signalEma)]
               IN [null |-> FALSE, macdLine |-> lastMacd, signalLine |-> lastSignal,
                   histogram |-> lastMacd - lastSignal]

macd(values, fast, slow, signal) ==
  IF Len(values) < slow + signal THEN NULL
  ELSE LET emaFast    == emaSeries(values, fast)
           emaSlow    == emaSeries(values, slow)
           macdValues == MacdValues(emaFast, emaSlow, slow - fast)
       IN IF Len(macdValues) < signal THEN NULL
          ELSE LET signalEma  == emaSeries(macdValues, signal)
                   lastMacd   == macdValues[Len(macdValues)]
                   lastSignal == signalEma[Len(signalEma)]
               IN [null |-> FALSE, macdLine |-> lastMacd, signalLine |-> lastSignal,
                   histogram |-> lastMacd - lastSignal]

Highs(candles) == FoldL(LAMBDA acc, i : Append(acc, candles[i].high), 1, Len(candles), << >>)

Lows(candles) == FoldL(LAMBDA acc, i : Append(acc, candles[i].low), 1, Len(candles), << >>)

Closes(candles) == FoldL(LAMBDA acc, i : Append(acc, candles[i].close), 1, Len(candles), << >>)

\* StochK reporting 0 for a window without range
StochKZeroRange(candles, kPeriod, i) ==
  LET high == FoldL(LAMBDA acc, j : Max2(acc, candles[j].high), i - kPeriod + 2, i,
                    candles[i - kPeriod + 1].high)
      low  == FoldL(LAMBDA acc, j : Min2(acc, candles[j].low), i - kPeriod + 2, i,
                    candles[i - kPeriod + 1].low)
  IN IF high = low THEN 0
     ELSE Pct(candles[i].close - low, high - low)

\* %K of the window of kPeriod candles ending at candle i
StochK(candles, kPeriod, i) ==
  LET high == FoldL(LAMBDA acc, j : Max2(acc, candles[j].high), i - kPeriod + 2, i,
                    candles[i - kPeriod + 1].high)
      low  == FoldL(LAMBDA acc, j : Min2(acc, candles[j].low), i - kPeriod + 2, i,
                    candles[i - kPeriod + 1].low)
  IN IF high = low THEN 50 * SCALE
     ELSE Pct(candles[i].close - low, high - low)

stochastic(candles, kPeriod, dPeriod) ==
  IF Len(candles) < kPeriod + dPeriod THEN NULL
  ELSE LET n == Len(candles)
           \* kValues.slice(-dPeriod): the last dPeriod of the n - kPeriod + 1 values
           cnt == Min2(dPeriod, n - kPeriod + 1)
           dSlice == [j \in 1..cnt |-> StochK(candles, kPeriod, n - cnt + j)]
       IN [null |-> FALSE, k |-> StochK(candles, kPeriod, n),
           d |-> RDiv(SumRange(dSlice, 1, cnt), dPeriod)]

bollingerBands(values, period, stdDev) ==
  IF Len(values) < period THEN NULL
  ELSE LET slice  == LastK(values, period)
           middle == RDiv(SumRange(slice, 1, period), period)
           squaredDiffs == [i \in 1..period |-> FMul(slice[i] - middle, slice[i] - middle)]
           variance == RDiv(SumRange(squaredDiffs, 1, period), period)
           std    == FSqrt(variance)
           upper  == middle + stdDev * std
           lower  == middle - stdDev * std
           width  == Pct(upper - lower, middle)
           lastPrice == values[Len(values)]
           percentB == IF upper # lower THEN FDiv(lastPrice - lower, upper - lower)
                       ELSE SCALE \div 2
       IN [null |-> FALSE, upper |-> upper, middle |-> middle, lower |-> lower,
           width |-> width, percentB |-> percentB]

PlusDM(candles, i) ==
  LET upMove   == candles[i].high - candles[i - 1].high
      downMove == candles[i - 1].low - candles[i].low
  IN IF upMove > downMove /\ upMove > 0 THEN upMove ELSE 0

MinusDM(candles, i) ==
  LET upMove   == candles[i].high - candles[i - 1].high
      downMove == candles[i - 1].low - candles[i].low
  IN IF downMove > upMove /\ downMove > 0 THEN downMove ELSE 0

\* the inner function smooth of adx: running sum - sum / p + arr[i]
smooth(arr, p) ==
  FoldL(LAMBDA result, i :
          Append(result, result[Len(result)] - RDiv(result[Len(result)], p) + arr[i]),
        p + 1, Len(arr), << SumRange(arr, 1, Min2(p, Len(arr))) >>)

DxAt(smoothedTR, smoothedPlusDM, smoothedMinusDM, i) ==
  IF smoothedTR[i] = 0 THEN 0
  ELSE LET pDI == Pct(smoothedPlusDM[i], smoothedTR[i])
           mDI == Pct(smoothedMinusDM[i], smoothedTR[i])
       IN IF pDI + mDI = 0 THEN 0 ELSE Pct(Abs(pDI - mDI), pDI + mDI)

adx(candles, period) ==
  IF Len(candles) < period * 2 THEN NULL
  ELSE LET plusDM  == FoldL(LAMBDA acc, i : Append(acc, PlusDM(candles, i)),
                            2, Len(candles), << >>)
           minusDM == FoldL(LAMBDA acc, i : Append(acc, MinusDM(candles, i)),
                            2, Len(candles), << >>)
           tr      == TrSeries(candles)
           smoothedTR      == smooth(tr, period)
           smoothedPlusDM  == smooth(plusDM, period)
           smoothedMinusDM == smooth(minusDM, period)
           dx == FoldL(LAMBDA acc, i :
                         Append(acc, DxAt(smoothedTR, smoothedPlusDM, smoothedMinusDM, i)),
                       1, Len(smoothedTR), << >>)
       IN IF Len(dx) < period THEN NULL
          ELSE LET adxVal == WilderAvg(dx, period)
                   lastTR == smoothedTR[Len(smoothedTR)]
               IN [null |-> FALSE, adx |-> adxVal,
                   plusDI  |-> IF lastTR > 0
                               THEN Pct(smoothedPlusDM[Len(smoothedPlusDM)], lastTR) ELSE 0,
                   minusDI |-> IF lastTR > 0
                               THEN Pct(smoothedMinusDM[Len(smoothedMinusDM)], lastTR) ELSE 0]

\* running on-balance volume after candle i
ObvStep(obv, candles, i) ==
  IF candles[i].close > candles[i - 1].close THEN obv + candles[i].volume
  ELSE IF candles[i].close < candles[i - 1].close THEN obv - candles[i].volume
  ELSE obv

ObvValues(candles) ==
  FoldL(LAMBDA acc, i :
          Append(acc, ObvStep(IF Len(acc) = 0 THEN 0 ELSE acc[Len(acc)], candles, i)),
        2, Len(candles), << >>)

obvTrend(candles, lookback) ==
  IF Len(candles) < lookback + 1 THEN "Flat"
  ELSE LET obvValues == ObvValues(candles)
           n      == Len(obvValues)
           recent == LastK(obvValues, lookback)
           \* obvValues.slice(-lookback * 2, -lookback)
           older  == SubSeq(obvValues, Max2(1, n - 2 * lookback + 1), n - lookback)
       IN IF Len(older) = 0 THEN "Flat"
          ELSE LET recentAvg == RDiv(SumRange(recent, 1, Len(recent)), Len(recent))
                   olderAvg  == RDiv(SumRange(older, 1, Len(older)), Len(older))
                   \* a change beyond +-1000 % is held at +-1000 %
                   change    == IF olderAvg = 0 THEN 0
                                ELSE IF Abs(recentAvg - olderAvg) \div 10 >= Abs(olderAvg)
                                THEN (IF recentAvg > olderAvg THEN 1000 ELSE -1000) * SCALE
                                ELSE Pct(recentAvg - olderAvg, Abs(olderAvg))
               IN IF change > 10 * SCALE THEN "Rising"
                  ELSE IF change < -10 * SCALE THEN "Falling"
                  ELSE "Flat"

(* ---------- structure analysis ---------- *)

\* candle i (1-based) passes the pivot test of findSwingPoints on highs
IsSwingHigh(candles, i, leftBars, rightBars) ==
  /\ \A j \in 1..leftBars  : ~(candles[i - j].high >= candles[i].high)
  /\ \A j \in 1..rightBars : ~(candles[i + j].high >= candles[i].high)

IsSwingLow(candles, i, leftBars, rightBars) ==
  /\ \A j \in 1..leftBars  : ~(candles[i - j].low <= candles[i].low)
  /\ \A j \in 1..rightBars : ~(candles[i + j].low <= candles[i].low)

\* swing points in time order; index is the 0-based position in candles
findSwingPoints(candles, leftBars, rightBars) ==
  [swingHighs |->
     FoldL(LAMBDA acc, i :
             IF IsSwingHigh(candles, i, leftBars, rightBars)
             THEN Append(acc, [price |-> candles[i].high, index |-> i - 1]) ELSE acc,
           leftBars + 1, Len(candles) - rightBars, << >>),
   swingLows |->
     FoldL(LAMBDA acc, i :
             IF IsSwingLow(candles, i, leftBars, rightBars)
             THEN Append(acc, [price |-> candles[i].low, index |-> i - 1]) ELSE acc,
           leftBars + 1, Len(candles) - rightBars, << >>)]

\* Math.round(point.price / (lastPrice * bucketPct)), bucketPct = 0.005
BucketKey(price, lastPrice) ==
  (price \div lastPrice) * 200 + RDiv((price % lastPrice) * 200, lastPrice)

\* position of the bucket with this key in the insertion-ordered map, 0 if absent
BucketPos(map, key) ==
  IF \E i \in 1..Len(map) : map[i].key = key
  THEN CHOOSE i \in 1..Len(map) : map[i].key = key
  ELSE 0

\* one iteration of the for-loop of clusterLevels; recency is kept as the
\* index, the divisor totalCandles being the same for every bucket
ClusterStep(map, point, lastPrice) ==
  LET key == BucketKey(point.price, lastPrice)
      pos == BucketPos(map, key)
  IN IF pos = 0
     THEN Append(map, [key |-> key, level |-> point.price, count |-> 1,
                       recency |-> point.index])
     ELSE LET item == map[pos]
              cnt  == item.count + 1
          IN [map EXCEPT ![pos] =
                [key |-> key,
                 level |-> RDiv(item.level * (cnt - 1) + point.price, cnt),
                 count |-> cnt,
                 recency |-> Max2(item.recency, point.index)]]

\* count * (0.5 + recency), times 2 * totalCandles
BucketScore(b, totalCandles) == b.count * (totalCandles + 2 * b.recency)

\* insertion into a list sorted by ascending score
InsertByScoreAscending(list, b, totalCandles) ==
  LET before == {i \in 1..Len(list) :
                   BucketScore(list[i], totalCandles) <= BucketScore(b, totalCandles)}
      k == Cardinality(before)
  IN SubSeq(list, 1, k) \o << b >> \o SubSeq(list, k + 1, Len(list))

\* stable insertion into a list sorted by descending score
InsertByScore(list, b, totalCandles) ==
  LET before == {i \in 1..Len(list) :
                   BucketScore(list[i], totalCandles) >= BucketScore(b, totalCandles)}
      k == Cardinality(before)
  IN SubSeq(list, 1, k) \o << b >> \o SubSeq(list, k + 1, Len(list))

clusterLevels(swingPoints, lastPrice, totalCandles) ==
  IF Len(swingPoints) = 0 THEN << >>
  ELSE LET map    == FoldL(LAMBDA m, i : ClusterStep(m, swingPoints[i], lastPrice),
                           1, Len(swingPoints), << >>)
           ranked == FoldL(LAMBDA acc, i : InsertByScore(acc, map[i], totalCandles),
                           1, Len(map), << >>)
       IN FoldL(LAMBDA acc, i : Append(acc, ranked[i].level), 1, Len(ranked), << >>)

\* levels.find(s => s < lastPrice) ?? null  (below), ... r > lastPrice (above)
FindLevel(levels, lastPrice, below) ==
  LET hits == {i \in 1..Len(levels) :
                 IF below THEN levels[i] < lastPrice ELSE levels[i] > lastPrice}
  IN IF hits = {} THEN NULL
     ELSE Some(levels[CHOOSE i \in hits : \A j \in hits : i <= j])

\* number of i in 2..Len(pts) with pts[i].price > pts[i-1].price
CountHigher(pts) == Cardinality({i \in 2..Len(pts) : pts[i].price > pts[i - 1].price})

\* detectMarketStructure counting over every swing point
detectMarketStructureAllSwings(swingHighs, swingLows) ==
  IF Len(swingHighs) < 2 \/ Len(swingLows) < 2
  THEN [structure |-> "Mixed", strength |-> 0]
  ELSE LET recentHighs == swingHighs
           recentLows  == swingLows
           higherHighs == CountHigher(recentHighs)
           lowerHighs  == (Len(recentHighs) - 1) - higherHighs
           higherLows  == CountHigher(recentLows)
           lowerLows   == (Len(recentLows) - 1) - higherLows
           bullishScore == higherHighs + higherLows
           bearishScore == lowerHighs + lowerLows
           total == bullishScore + bearishScore
       IN IF total = 0 THEN [structure |-> "Mixed", strength |-> 0]
          ELSE IF 2 * bullishScore > 3 * bearishScore
               THEN [structure |-> "Bullish", strength |-> Pct(bullishScore, total)]
          ELSE IF 2 * bearishScore > 3 * bullishScore
               THEN [structure |-> "Bearish", strength |-> Pct(bearishScore, total)]
          ELSE [structure |-> "Mixed", strength |-> 50 * SCALE]

detectMarketStructure(swingHighs, swingLows) ==
  IF Len(swingHighs) < 2 \/ Len(swingLows) < 2
  THEN [structure |-> "Mixed", strength |-> 0]
  ELSE LET recentHighs == LastK(swingHighs, 4)
           recentLows  == LastK(swingLows, 4)
           higherHighs == CountHigher(recentHighs)
           lowerHighs  == (Len(recentHighs) - 1) - higherHighs
           higherLows  == CountHigher(recentLows)
           lowerLows   == (Len(recentLows) - 1) - higherLows
           bullishScore == higherHighs + higherLows
           bearishScore == lowerHighs + lowerLows
           total == bullishScore + bearishScore
       IN IF total = 0 THEN [structure |-> "Mixed", strength |-> 0]
          ELSE IF 2 * bullishScore > 3 * bearishScore
               THEN [structure |-> "Bullish", strength |-> Pct(bullishScore, total)]
          ELSE IF 2 * bearishScore > 3 * bullishScore
               THEN [structure |-> "Bearish", strength |-> Pct(bearishScore, total)]
          ELSE [structure |-> "Mixed", strength |-> 50 * SCALE]

fibonacciLevels(swingHigh, swingLow) ==
  LET range == swingHigh - swingLow
  IN [level236 |-> swingHigh - Times(range, 236, 1000),
      level382 |-> swingHigh - Times(range, 382, 1000),
      level500 |-> swingHigh - Times(range, 5, 10),
      level618 |-> swingHigh - Times(range, 618, 1000),
      level786 |-> swingHigh - Times(range, 786, 1000),
      ext1272  |-> swingLow + Times(range, 1272, 1000),
      ext1618  |-> swingLow + Times(range, 1618, 1000),
      ext2000  |-> swingLow + Times(range, 2, 1)]

(* ---------- signal scoring ---------- *)

\* the EMA-alignment cue of calculateTrendScore
EmaAlignment(lastPrice, ema20, ema50, ema200) ==
  IF lastPrice > ema20 /\ ema20 > ema50 /\ ema50 > ema200 THEN 100 * SCALE
  ELSE IF lastPrice < ema20 /\ ema20 < ema50 /\ ema50 < ema200 THEN -100 * SCALE
  ELSE IF lastPrice > ema50 /\ ema50 > ema200 THEN 50 * SCALE
  ELSE IF lastPrice < ema50 /\ ema50 < ema200 THEN -50 * SCALE
  ELSE IF lastPrice > ema200 THEN 20 * SCALE
  ELSE -20 * SCALE

\* factors are counted in halves (factors2 = 2 * factors)
calculateTrendScore(lastPrice, ema20, ema50, ema200, adxVal, structure) ==
  LET hasEma == ~IsNull(ema20) /\ ~IsNull(ema50) /\ ~IsNull(ema200)
      score1 == IF hasEma THEN EmaAlignment(lastPrice, ema20.val, ema50.val, ema200.val) ELSE 0
      fact1  == IF hasEma THEN 2 ELSE 0
      direction == IF IsNull(adxVal) THEN 0
                   ELSE IF adxVal.plusDI > adxVal.minusDI THEN 1 ELSE -1
      strong == ~IsNull(adxVal) /\ adxVal.adx > 25 * SCALE
      weak   == ~IsNull(adxVal) /\ ~strong /\ adxVal.adx < 15 * SCALE
      score2 == IF strong THEN score1 + direction * Min2(adxVal.adx, 50 * SCALE)
                ELSE IF weak THEN Times(score1, 5, 10)
                ELSE score1
      fact2  == IF strong THEN fact1 + 2 ELSE fact1
      score3 == IF structure.structure = "Bullish"
                THEN score2 + Times(structure.strength, 3, 10)
                ELSE IF structure.structure = "Bearish"
                THEN score2 - Times(structure.strength, 3, 10)
                ELSE score2
      fact3  == IF structure.structure \in {"Bullish", "Bearish"} THEN fact2 + 1 ELSE fact2
  IN IF fact3 > 0
     THEN clamp(RDiv(score3 * 2, Max2(fact3, 2)), -100 * SCALE, 100 * SCALE)
     ELSE 0

\* RsiCue scoring an RSI above 70 as plain bullish momentum
RsiCueNoOverbought(rsi14) ==
  IF rsi14 < 30 * SCALE THEN 60 * SCALE + Times(30 * SCALE - rsi14, 15, 10)
  ELSE IF rsi14 > 50 * SCALE THEN Times(rsi14 - 50 * SCALE, 15, 10)
  ELSE -Times(50 * SCALE - rsi14, 15, 10)

\* the RSI cue of calculateMomentumScore
RsiCue(rsi14) ==
  IF rsi14 < 30 * SCALE THEN 60 * SCALE + Times(30 * SCALE - rsi14, 15, 10)
  ELSE IF rsi14 > 70 * SCALE THEN -(60 * SCALE + Times(rsi14 - 70 * SCALE, 15, 10))
  ELSE IF rsi14 > 50 * SCALE THEN Times(rsi14 - 50 * SCALE, 15, 10)
  ELSE -Times(50 * SCALE - rsi14, 15, 10)

calculateMomentumScore(rsi14, rsi7, macdData, stoch, lastPrice) ==
  LET sRsi  == IF ~IsNull(rsi14) THEN RsiCue(rsi14.val) ELSE 0
      fRsi  == IF ~IsNull(rsi14) THEN 2 ELSE 0
      diff  == IF ~IsNull(rsi14) /\ ~IsNull(rsi7) THEN rsi7.val - rsi14.val ELSE 0
      sDiv  == IF diff > 5 * SCALE THEN 15 * SCALE
               ELSE IF diff < -5 * SCALE THEN -15 * SCALE ELSE 0
      useMacd == ~IsNull(macdData) /\ lastPrice > 0
      histNorm == IF useMacd THEN Pct(macdData.histogram, lastPrice) ELSE 0
      sMacd == IF ~useMacd THEN 0
               ELSE clamp(histNorm * 8, -40 * SCALE, 40 * SCALE)
                    + (IF macdData.macdLine > macdData.signalLine /\ macdData.histogram > 0
                       THEN 20 * SCALE
                       ELSE IF macdData.macdLine < macdData.signalLine /\ macdData.histogram < 0
                       THEN -20 * SCALE ELSE 0)
      fMacd == IF useMacd THEN 2 ELSE 0
      sStoch == IF IsNull(stoch) THEN 0
                ELSE (IF stoch.k < 20 * SCALE /\ stoch.d < 20 * SCALE THEN 30 * SCALE
                      ELSE IF stoch.k > 80 * SCALE /\ stoch.d > 80 * SCALE THEN -30 * SCALE
                      ELSE 0)
                   + (IF stoch.k > stoch.d /\ stoch.k < 50 * SCALE THEN 15 * SCALE
                      ELSE IF stoch.k < stoch.d /\ stoch.k > 50 * SCALE THEN -15 * SCALE
                      ELSE 0)
      fStoch == IF IsNull(stoch) THEN 0 ELSE 1
      score   == sRsi + sDiv + sMacd + sStoch
      factors2 == fRsi + fMacd + fStoch
  IN IF factors2 > 0
     THEN clamp(RDiv(score * 2, factors2), -100 * SCALE, 100 * SCALE)
     ELSE 0

calculateVolatilityScore(atrPercent, bb) ==
  LET sAtr == IF atrPercent < 2 * SCALE THEN 50 * SCALE
              ELSE IF atrPercent < 4 * SCALE THEN 20 * SCALE
              ELSE IF atrPercent < 6 * SCALE THEN -20 * SCALE
              ELSE -60 * SCALE
      extremity == IF IsNull(bb) THEN 0 ELSE Abs(bb.percentB - SCALE \div 2) * 2
      sBand == IF IsNull(bb) THEN 0
               ELSE (IF extremity < Times(SCALE, 3, 10) THEN 20 * SCALE
                     ELSE IF extremity > Times(SCALE, 8, 10)
                     THEN -40 * SCALE
                          + (IF bb.percentB < Times(SCALE, 2, 10) THEN 30 * SCALE ELSE 0)
                     ELSE 0)
                    + (IF bb.width < 5 * SCALE THEN 10 * SCALE ELSE 0)
  IN clamp(sAtr + sBand, -100 * SCALE, 100 * SCALE)

\* the Fibonacci loop of calculateStructureScore over [level382, level500, level618]
RECURSIVE FibCue(_, _, _)
FibCue(lastPrice, fibLevels, i) ==
  IF i > Len(fibLevels) THEN 0
  ELSE LET dist == Pct(Abs(lastPrice - fibLevels[i]), lastPrice)
       IN IF dist < Times(SCALE, 15, 10)
          THEN (IF lastPrice < fibLevels[i] THEN 20 * SCALE ELSE 0)
          ELSE FibCue(lastPrice, fibLevels, i + 1)

calculateStructureScore(lastPrice, support, resistance, fib) ==
  LET distToSupport == IF IsNull(support) THEN 0 ELSE Pct(lastPrice - support.val, lastPrice)
      sSup == IF IsNull(support) THEN 0
              ELSE IF distToSupport > 0 /\ distToSupport < 3 * SCALE THEN 50 * SCALE
              ELSE IF distToSupport > 0 /\ distToSupport < 6 * SCALE THEN 25 * SCALE
              ELSE IF distToSupport < 0 THEN -30 * SCALE
              ELSE 0
      distToResistance == IF IsNull(resistance) THEN 0
                          ELSE Pct(resistance.val - lastPrice, lastPrice)
      sRes == IF IsNull(resistance) THEN 0
              ELSE IF distToResistance > 0 /\ distToResistance < 2 * SCALE THEN -40 * SCALE
              ELSE IF distToResistance > 0 /\ distToResistance < 5 * SCALE THEN -15 * SCALE
              ELSE IF distToResistance < 0 THEN 30 * SCALE
              ELSE 0
      sFib == FibCue(lastPrice, << fib.level382, fib.level500, fib.level618 >>, 1)
  IN clamp(sSup + sRes + sFib, -100 * SCALE, 100 * SCALE)

calculateVolumeScore(obvTrendVal) ==
  IF obvTrendVal = "Rising" THEN 40 * SCALE
  ELSE IF obvTrendVal = "Falling" THEN -40 * SCALE
  ELSE 0

\* CompositeScore with the weights taken as tenths instead of hundredths
CompositeScoreTenths(trendScore, momentumScore, structureScore, volumeScore, volatilityScore) ==
  RDiv(trendScore * 30 + momentumScore * 25 + structureScore * 20
       + volumeScore * 15 + volatilityScore * 10, 10)

\* the weighted composite of analyseCandles
CompositeScore(trendScore, momentumScore, structureScore, volumeScore, volatilityScore) ==
  RDiv(trendScore * 30 + momentumScore * 25 + structureScore * 20
       + volumeScore * 15 + volatilityScore * 10, 100)

(* ---------- utility functions ---------- *)

\* x ?? d
OrElse(x, d) == IF IsNull(x) THEN d ELSE x.val

\* guessDp, for a positive or negative fixed-point price
guessDp(price) ==
  IF price >= 10000 * SCALE THEN 2
  ELSE IF price >= 1000 * SCALE THEN 3
  ELSE IF price >= 100 * SCALE THEN 4
  ELSE IF price >= 1 * SCALE THEN 5
  ELSE IF 100 * price >= SCALE THEN 6
  ELSE 8

RECURSIVE Pow10(_)
Pow10(dp) == IF dp = 0 THEN 1 ELSE 10 * Pow10(dp - 1)

\* round(n, dp): Math.round(n * 10^dp) / 10^dp.  A fixed-point value keeps
\* its digits when 10^dp reaches SCALE.
round(n, dp) ==
  IF Pow10(dp) >= SCALE THEN n
  ELSE RDiv(n, SCALE \div Pow10(dp)) * (SCALE \div Pow10(dp))

\* formatPrice printing prices quoted in USD with two decimals
formatPriceFiatDp(price, quote) ==
  [quote |-> quote, dp |-> IF quote = "USD" THEN 2 ELSE guessDp(price),
   value |-> round(price, IF quote = "USD" THEN 2 ELSE guessDp(price))]

\* formatPrice: the quote prefix and the price printed with guessDp decimals
formatPrice(price, quote) ==
  [quote |-> quote, dp |-> guessDp(price), value |-> round(price, guessDp(price))]

(* ---------- main analysis ---------- *)

MIN_CANDLES == 60

\* TrendLabel with the bullish thresholds compared the wrong way round
TrendLabelFlipped(trendScore) ==
  IF trendScore < 60 * SCALE THEN "Strong Bull"
  ELSE IF trendScore < 20 * SCALE THEN "Bull"
  ELSE IF trendScore > -20 * SCALE THEN "Neutral"
  ELSE IF trendScore > -60 * SCALE THEN "Bear"
  ELSE "Strong Bear"

\* trend label from the trend score
TrendLabel(trendScore) ==
  IF trendScore > 60 * SCALE THEN "Strong Bull"
  ELSE IF trendScore > 20 * SCALE THEN "Bull"
  ELSE IF trendScore > -20 * SCALE THEN "Neutral"
  ELSE IF trendScore > -60 * SCALE THEN "Bear"
  ELSE "Strong Bear"

\* EntryZone without the clamp below the current price
EntryZoneUnclamped(lastPrice, atr14, support, fib, isStrongBullishBreakout, compositeScore) ==
  LET branch == IF isStrongBullishBreakout THEN "breakout"
                ELSE IF ~IsNull(support) /\ support.val > Times(lastPrice, 9, 10) THEN "support"
                ELSE IF lastPrice < fib.level618 /\ lastPrice > fib.level786 THEN "pocket"
                ELSE "default"
      pullback == Times(atr14, 12, 10)
      low0  == IF branch = "breakout" THEN lastPrice - Times(atr14, 3, 10)
               ELSE IF branch = "support" THEN Times(support.val, 995, 1000)
               ELSE IF branch = "pocket" THEN Times(fib.level786, 99, 100)
               ELSE lastPrice - Times(pullback, 15, 10)
      high0 == IF branch = "breakout" THEN lastPrice + Times(atr14, 5, 10)
               ELSE IF branch = "support" THEN Times(support.val, 101, 100)
               ELSE IF branch = "pocket" THEN Times(fib.level618, 1005, 1000)
               ELSE lastPrice - Times(pullback, 5, 10)
      pull  == FALSE
      high1 == IF pull THEN Min2(high0, Times(lastPrice, 995, 1000)) ELSE high0
      low1  == IF pull THEN Min2(low0, Times(high1, 985, 1000)) ELSE low0
      low2  == Min2(low1, high1)
  IN [entryLow |-> low2, entryHigh |-> high1, entryMid |-> RDiv(low2 + high1, 2),
      isBreakoutEntry |-> (branch = "breakout"), branch |-> branch]

\* "Calculate entry zone"
EntryZone(lastPrice, atr14, support, fib, isStrongBullishBreakout, compositeScore) ==
  LET branch == IF isStrongBullishBreakout THEN "breakout"
                ELSE IF ~IsNull(support) /\ support.val > Times(lastPrice, 9, 10) THEN "support"
                ELSE IF lastPrice < fib.level618 /\ lastPrice > fib.level786 THEN "pocket"
                ELSE "default"
      pullback == Times(atr14, 12, 10)
      low0  == IF branch = "breakout" THEN lastPrice - Times(atr14, 3, 10)
               ELSE IF branch = "support" THEN Times(support.val, 995, 1000)
               ELSE IF branch = "pocket" THEN Times(fib.level786, 99, 100)
               ELSE lastPrice - Times(pullback, 15, 10)
      high0 == IF branch = "breakout" THEN lastPrice + Times(atr14, 5, 10)
               ELSE IF branch = "support" THEN Times(support.val, 101, 100)
               ELSE IF branch = "pocket" THEN Times(fib.level618, 1005, 1000)
               ELSE lastPrice - Times(pullback, 5, 10)
      pull  == compositeScore > 0 /\ branch # "breakout"
      high1 == IF pull THEN Min2(high0, Times(lastPrice, 995, 1000)) ELSE high0
      low1  == IF pull THEN Min2(low0, Times(high1, 985, 1000)) ELSE low0
      low2  == Min2(low1, high1)
  IN [entryLow |-> low2, entryHigh |-> high1, entryMid |-> RDiv(low2 + high1, 2),
      isBreakoutEntry |-> (branch = "breakout"), branch |-> branch]

\* StopLoss without the minimum stop distance
StopLossNoMinimum(entryMid, entryLow, atr14, support, isBreakoutEntry) ==
  LET stop0 == IF isBreakoutEntry THEN entryMid - Times(atr14, 15, 10)
               ELSE IF ~IsNull(support) /\ support.val < entryLow
               THEN Times(support.val, 985, 1000)
               ELSE entryMid - atr14 * 2
      minStopDist == Times(entryMid, 15, 1000)
      stop1 == stop0
      stop2 == IF entryMid - stop1 <= 0 THEN Times(entryMid, 985, 1000) ELSE stop1
  IN [stop |-> stop2, risk |-> entryMid - stop2]

\* "Calculate stop loss"
StopLoss(entryMid, entryLow, atr14, support, isBreakoutEntry) ==
  LET stop0 == IF isBreakoutEntry THEN entryMid - Times(atr14, 15, 10)
               ELSE IF ~IsNull(support) /\ support.val < entryLow
               THEN Times(support.val, 985, 1000)
               ELSE entryMid - atr14 * 2
      minStopDist == Times(entryMid, 15, 1000)
      stop1 == IF entryMid - stop0 < minStopDist THEN entryMid - minStopDist ELSE stop0
      stop2 == IF entryMid - stop1 <= 0 THEN Times(entryMid, 985, 1000) ELSE stop1
  IN [stop |-> stop2, risk |-> entryMid - stop2]

\* ATR%-derived caps of "Calculate targets"
MaxMovePct(atrPercent) == IF atrPercent > 0 THEN Min2(atrPercent * 8, 60 * SCALE) ELSE 30 * SCALE

\* entryMid * (1 + maxMovePct / 100)
MaxT2Price(entryMid, atrPercent) ==
  IF entryMid >= 0
  THEN MulDiv(entryMid, 100 * SCALE + MaxMovePct(atrPercent), 100 * SCALE)
  ELSE -MulDiv(-entryMid, 100 * SCALE + MaxMovePct(atrPercent), 100 * SCALE)

MaxT3Price(entryMid, atrPercent) == Times(MaxT2Price(entryMid, atrPercent), 115, 100)

\* "Re-ensure ordering after final cap"
Reorder(t1, t2, t3) ==
  LET t3r == IF t3 <= t2 THEN Times(t2, 105, 100) ELSE t3
      t2r == IF t2 <= t1 THEN Times(t1, 105, 100) ELSE t2
  IN [t1 |-> t1, t2 |-> t2r, t3 |-> t3r]

\* Targets without the cap on t3
TargetsUncappedT3(entryMid, risk, resistance, fib, atrPercent) ==
  LET t1a == entryMid + Times(risk, 15, 10)
      t1b == IF ~IsNull(resistance) /\ resistance.val > entryMid /\ resistance.val < t1a
             THEN Times(resistance.val, 995, 1000) ELSE t1a
      t2a == Max2(fib.ext1272, entryMid + Times(risk, 25, 10))
      t2b == IF ~IsNull(resistance) /\ resistance.val > t1b /\ resistance.val < t2a
             THEN Times(resistance.val, 1005, 1000) ELSE t2a
      t3a == Max2(fib.ext1618, entryMid + risk * 4)
      t1c == Max2(t1b, entryMid + Times(risk, 12, 10))
      t2c == Max2(t2b, t1c + Times(risk, 8, 10))
      t3c == Max2(t3a, t2c + Times(risk, 8, 10))
      t2d == Min2(t2c, MaxT2Price(entryMid, atrPercent))
      t3d == t3c
  IN Reorder(t1c, t2d, t3d)

\* Targets without the 1.2R floor under t1
TargetsNoFloor(entryMid, risk, resistance, fib, atrPercent) ==
  LET t1a == entryMid + Times(risk, 15, 10)
      t1b == IF ~IsNull(resistance) /\ resistance.val > entryMid /\ resistance.val < t1a
             THEN Times(resistance.val, 995, 1000) ELSE t1a
      t2a == Max2(fib.ext1272, entryMid + Times(risk, 25, 10))
      t2b == IF ~IsNull(resistance) /\ resistance.val > t1b /\ resistance.val < t2a
             THEN Times(resistance.val, 1005, 1000) ELSE t2a
      t3a == Max2(fib.ext1618, entryMid + risk * 4)
      t1c == t1b
      t2c == Max2(t2b, t1c + Times(risk, 8, 10))
      t3c == Max2(t3a, t2c + Times(risk, 8, 10))
      t2d == Min2(t2c, MaxT2Price(entryMid, atrPercent))
      t3d == Min2(t3c, MaxT3Price(entryMid, atrPercent))
  IN Reorder(t1c, t2d, t3d)

\* "Calculate targets"
Targets(entryMid, risk, resistance, fib, atrPercent) ==
  LET t1a == entryMid + Times(risk, 15, 10)
      t1b == IF ~IsNull(resistance) /\ resistance.val > entryMid /\ resistance.val < t1a
             THEN Times(resistance.val, 995, 1000) ELSE t1a
      t2a == Max2(fib.ext1272, entryMid + Times(risk, 25, 10))
      t2b == IF ~IsNull(resistance) /\ resistance.val > t1b /\ resistance.val < t2a
             THEN Times(resistance.val, 1005, 1000) ELSE t2a
      t3a == Max2(fib.ext1618, entryMid + risk * 4)
      t1c == Max2(t1b, entryMid + Times(risk, 12, 10))
      t2c == Max2(t2b, t1c + Times(risk, 8, 10))
      t3c == Max2(t3a, t2c + Times(risk, 8, 10))
      t2d == Min2(t2c, MaxT2Price(entryMid, atrPercent))
      t3d == Min2(t3c, MaxT3Price(entryMid, atrPercent))
  IN Reorder(t1c, t2d, t3d)

\* BaseVerdict with a bearish label for negative composite scores
BaseVerdictWithAvoid(compositeScore) ==
  IF compositeScore >= 50 * SCALE THEN "Strong Buy"
  ELSE IF compositeScore >= 20 * SCALE THEN "Buy"
  ELSE IF compositeScore >= 0 THEN "Wait"
  ELSE "Avoid"

\* BaseVerdict with the Buy threshold at 10
BaseVerdictBuyFrom10(compositeScore) ==
  IF compositeScore >= 50 * SCALE THEN "Strong Buy"
  ELSE IF compositeScore >= 10 * SCALE THEN "Buy"
  ELSE "Wait"

\* base verdict from the composite score
BaseVerdict(compositeScore) ==
  IF compositeScore >= 50 * SCALE THEN "Strong Buy"
  ELSE IF compositeScore >= 20 * SCALE THEN "Buy"
  ELSE "Wait"

\* UpgradeApplies with the oversold threshold at 20
UpgradeAppliesBelow20(rsi14Val, momentumScore, trendScore, trend) ==
  /\ rsi14Val < 20 * SCALE
  /\ momentumScore > 0
  /\ ~(trend \in {"Strong Bear", "Bear"})
  /\ trendScore > -30 * SCALE

UpgradeApplies(rsi14Val, momentumScore, trendScore, trend) ==
  /\ rsi14Val < 25 * SCALE
  /\ momentumScore > 0
  /\ ~(trend \in {"Strong Bear", "Bear"})
  /\ trendScore > -30 * SCALE

\* DowngradeApplies with the overbought threshold at 90
DowngradeAppliesAbove90(rsi14Val, momentumScore, trendScore, trend) ==
  /\ rsi14Val > 90 * SCALE
  /\ momentumScore < 0
  /\ ~(trend \in {"Strong Bull", "Bull"})
  /\ trendScore < 30 * SCALE

DowngradeApplies(rsi14Val, momentumScore, trendScore, trend) ==
  /\ rsi14Val > 80 * SCALE
  /\ momentumScore < 0
  /\ ~(trend \in {"Strong Bull", "Bull"})
  /\ trendScore < 30 * SCALE

\* Verdict without the second bearish override (trend score < -50)
VerdictOneOverride(compositeScore, rsi14Val, momentumScore, trendScore, trend, volumeScore) ==
  LET v0 == BaseVerdict(compositeScore)
      isBearishTrend == trend \in {"Strong Bear", "Bear"}
      v1 == IF UpgradeApplies(rsi14Val, momentumScore, trendScore, trend)
            THEN (IF v0 = "Wait" THEN "Buy" ELSE IF v0 = "Buy" THEN "Strong Buy" ELSE v0)
            ELSE IF DowngradeApplies(rsi14Val, momentumScore, trendScore, trend)
            THEN (IF v0 = "Buy" THEN "Wait" ELSE IF v0 = "Strong Buy" THEN "Buy" ELSE v0)
            ELSE v0
      v2 == IF isBearishTrend /\ volumeScore < -20 * SCALE /\ v1 = "Buy" THEN "Wait" ELSE v1
  IN v2

\* "Determine verdict": base verdict, upgrade / downgrade, bearish overrides
Verdict(compositeScore, rsi14Val, momentumScore, trendScore, trend, volumeScore) ==
  LET v0 == BaseVerdict(compositeScore)
      isBearishTrend == trend \in {"Strong Bear", "Bear"}
      v1 == IF UpgradeApplies(rsi14Val, momentumScore, trendScore, trend)
            THEN (IF v0 = "Wait" THEN "Buy" ELSE IF v0 = "Buy" THEN "Strong Buy" ELSE v0)
            ELSE IF DowngradeApplies(rsi14Val, momentumScore, trendScore, trend)
            THEN (IF v0 = "Buy" THEN "Wait" ELSE IF v0 = "Strong Buy" THEN "Buy" ELSE v0)
            ELSE v0
      v2 == IF isBearishTrend /\ volumeScore < -20 * SCALE /\ v1 = "Buy" THEN "Wait" ELSE v1
      v3 == IF isBearishTrend /\ trendScore < -50 * SCALE /\ v2 = "Buy" THEN "Wait" ELSE v2
  IN v3

\* "Risk level"
RiskLevelOf(atrPercent, compositeScore) ==
  IF atrPercent < 2 * SCALE /\ Abs(compositeScore) > 30 * SCALE THEN "Low"
  ELSE IF atrPercent < 4 * SCALE THEN "Medium"
  ELSE IF atrPercent < 6 * SCALE THEN "High"
  ELSE "Very High"

\* "Confidence"
ConfidenceOf(trendScore, momentumScore, structureScore, volumeScore, compositeScore) ==
  LET bullishSignals == (IF trendScore > 15 * SCALE THEN 1 ELSE 0)
                        + (IF momentumScore > 15 * SCALE THEN 1 ELSE 0)
                        + (IF structureScore > 15 * SCALE THEN 1 ELSE 0)
                        + (IF volumeScore > 8 * SCALE THEN 1 ELSE 0)
  IN IF bullishSignals >= 4 \/ (bullishSignals >= 3 /\ compositeScore >= 40 * SCALE) THEN "High"
     ELSE IF bullishSignals >= 3 \/ (bullishSignals >= 2 /\ compositeScore >= 25 * SCALE)
     THEN "Medium"
     ELSE "Low"

\* pair.trim().toUpperCase().replace(/-/g, "/").split("/")[1] ?? "USD".  A pair
\* label is its separator and its segments; both separators split alike once
\* "-" is replaced by "/".
toUpperCase(str) ==
  CASE str = "btc" -> "BTC"
    [] str = "usd" -> "USD"
    [] str = "eur" -> "EUR"
    [] str = "eth" -> "ETH"
    [] OTHER -> str

QuoteOf(pair) ==
  IF Len(pair.segments) >= 2 THEN toUpperCase(pair.segments[2]) ELSE "USD"

\* "Build reasons": one record per sentence, in the order they are pushed
Reasons(ema200, isBreakoutEntry, adxData, trendScore, trend, rsi14Val, macdData, support, lastPrice, quote, atrPercent, rr, compositeScore, verdict) ==
  LET distToSupport == IF IsNull(support) THEN 0 ELSE Pct(lastPrice - support.val, lastPrice)
  IN (IF IsNull(ema200) THEN << [kind |-> "EMA200 unavailable"] >> ELSE << >>)
  \o (IF isBreakoutEntry
      THEN << [kind |-> "Breakout", adx |-> round(IF IsNull(adxData) THEN 0 ELSE adxData.adx, 1)] >>
      ELSE << >>)
  \o (IF trendScore > 30 * SCALE THEN << [kind |-> "Trend favoring longs", trend |-> trend] >>
      ELSE IF trendScore < -30 * SCALE THEN << [kind |-> "Trend favoring shorts", trend |-> trend] >>
      ELSE << [kind |-> "Trend neutral"] >>)
  \o (IF rsi14Val < 35 * SCALE THEN << [kind |-> "RSI oversold", rsi |-> round(rsi14Val, 1)] >>
      ELSE IF rsi14Val > 65 * SCALE THEN << [kind |-> "RSI overbought", rsi |-> round(rsi14Val, 1)] >>
      ELSE << [kind |-> "RSI neutral", rsi |-> round(rsi14Val, 1)] >>)
  \o (IF IsNull(macdData) THEN << >>
      ELSE IF macdData.histogram > 0 /\ macdData.macdLine > macdData.signalLine
      THEN << [kind |-> "MACD bullish"] >>
      ELSE IF macdData.histogram < 0 /\ macdData.macdLine < macdData.signalLine
      THEN << [kind |-> "MACD bearish"] >>
      ELSE << [kind |-> "MACD mixed"] >>)
  \o (IF ~IsNull(support) /\ distToSupport > 0 /\ distToSupport < 5 * SCALE
      THEN << [kind |-> "Above support", pct |-> round(distToSupport, 1),
               at |-> formatPrice(support.val, quote)] >>
      ELSE << >>)
  \o << [kind |-> "ATR volatility", pct |-> round(atrPercent, 2),
         label |-> IF atrPercent < 3 * SCALE THEN "moderate" ELSE "high"] >>
  \o (IF IsNull(adxData) THEN << >>
      ELSE IF adxData.adx > 25 * SCALE
      THEN << [kind |-> "ADX strong", adx |-> round(adxData.adx, 1),
               direction |-> IF adxData.plusDI > adxData.minusDI THEN "bullish" ELSE "bearish"] >>
      ELSE << [kind |-> "ADX weak", adx |-> round(adxData.adx, 1)] >>)
  \o << [kind |-> "Risk-to-reward", t1 |-> round(rr[1], 2), t2 |-> round(rr[2], 2),
         t3 |-> round(rr[3], 2)] >>
  \o << [kind |-> "Composite score", score |-> round(compositeScore, 1)] >>
  \o (IF verdict = "Wait" THEN << [kind |-> "Verdict is Wait"] >> ELSE << >>)

\* ema ? round(ema, guessDp(ema)) : 0   (0 is falsy too)
RoundedOrZero(x) == IF IsNull(x) \/ x.val = 0 THEN 0 ELSE round(x.val, guessDp(x.val))

\* "Calculate all indicators"
Indicators(candles) ==
  LET closes    == Closes(candles)
      lastPrice == closes[Len(closes)]
      atr14     == OrElse(atr(candles, 14), Times(lastPrice, 2, 100))
  IN [lastPrice |-> lastPrice,
      ema20 |-> ema(closes, 20), ema50 |-> ema(closes, 50), ema200 |-> ema(closes, 200),
      rsi14Val |-> OrElse(rsi(closes, 14), 50 * SCALE),
      rsi7Val |-> OrElse(rsi(closes, 7), 50 * SCALE),
      atr14 |-> atr14, atrPercent |-> Pct(atr14, lastPrice),
      macdData |-> macd(closes, 12, 26, 9), stochData |-> stochastic(candles, 14, 3),
      bbData |-> bollingerBands(closes, 20, 2), adxData |-> adx(candles, 14),
      obvTrendVal |-> obvTrend(candles, 20)]

\* Math.max(...swingHighs.slice(-5).map(s => s.price)), or the highest high of
\* the last 50 candles when there is no swing high
RecentHigh(candles, swingHighs) ==
  LET last5Highs == LastK(swingHighs, 5)
      last50     == LastK(candles, 50)
  IN IF Len(swingHighs) > 0
     THEN FoldL(LAMBDA acc, i : Max2(acc, last5Highs[i].price),
                2, Len(last5Highs), last5Highs[1].price)
     ELSE MaxRange(Highs(last50), 1, Len(last50))

RecentLow(candles, swingLows) ==
  LET last5Lows == LastK(swingLows, 5)
      last50    == LastK(candles, 50)
  IN IF Len(swingLows) > 0
     THEN FoldL(LAMBDA acc, i : Min2(acc, last5Lows[i].price),
                2, Len(last5Lows), last5Lows[1].price)
     ELSE MinRange(Lows(last50), 1, Len(last50))

\* "Structure analysis" from the swing points of the last 100 candles
StructureFrom(candles, lastPrice, swingHighs, swingLows) ==
  LET recentHigh == RecentHigh(candles, swingHighs)
      recentLow  == RecentLow(candles, swingLows)
      totalCandlesAnalyzed == Min2(Len(candles), 100)
  IN [swingHighs |-> swingHighs, swingLows |-> swingLows,
      structureData |-> detectMarketStructure(swingHighs, swingLows),
      recentHigh |-> recentHigh, recentLow |-> recentLow,
      fib |-> fibonacciLevels(recentHigh, recentLow),
      support |-> FindLevel(clusterLevels(swingLows, lastPrice, totalCandlesAnalyzed),
                            lastPrice, TRUE),
      resistance |-> FindLevel(clusterLevels(swingHighs, lastPrice, totalCandlesAnalyzed),
                               lastPrice, FALSE)]

\* "Structure analysis"
StructureOf(candles, lastPrice) ==
  LET swings == findSwingPoints(LastK(candles, 100), 3, 3)
  IN StructureFrom(candles, lastPrice, swings.swingHighs, swings.swingLows)

\* "Signal scoring" and "Determine trend"
ScoresOf(ind, st) ==
  LET trendScore      == calculateTrendScore(ind.lastPrice, ind.ema20, ind.ema50, ind.ema200,
                                             ind.adxData, st.structureData)
      momentumScore   == calculateMomentumScore(Some(ind.rsi14Val), Some(ind.rsi7Val),
                                                ind.macdData, ind.stochData, ind.lastPrice)
      volatilityScore == calculateVolatilityScore(ind.atrPercent, ind.bbData)
      structureScore  == calculateStructureScore(ind.lastPrice, st.support, st.resistance,
                                                 st.fib)
      volumeScore     == calculateVolumeScore(ind.obvTrendVal)
  IN [trendScore |-> trendScore, momentumScore |-> momentumScore,
      volatilityScore |-> volatilityScore, structureScore |-> structureScore,
      volumeScore |-> volumeScore,
      compositeScore |-> CompositeScore(trendScore, momentumScore, structureScore,
                                        volumeScore, volatilityScore),
      trend |-> TrendLabel(trendScore)]

\* "Calculate stop loss", "Calculate targets" and the risk-to-reward ratios
LevelsFrom(entry, ind, st) ==
  LET sl == StopLoss(entry.entryMid, entry.entryLow, ind.atr14, st.support,
                     entry.isBreakoutEntry)
      tg == Targets(entry.entryMid, sl.risk, st.resistance, st.fib, ind.atrPercent)
  IN [entry |-> entry, sl |-> sl, tg |-> tg,
      rr |-> [i \in 1..3 |->
                IF sl.risk > 0
                THEN FDiv((IF i = 1 THEN tg.t1 ELSE IF i = 2 THEN tg.t2 ELSE tg.t3)
                          - entry.entryMid, sl.risk)
                ELSE 0],
      maxT2Price |-> MaxT2Price(entry.entryMid, ind.atrPercent),
      maxT3Price |-> MaxT3Price(entry.entryMid, ind.atrPercent)]

\* "Calculate entry zone" and the levels that follow from it
LevelsOf(ind, st, sc) ==
  LET isStrongBullishBreakout ==
        /\ sc.trendScore > 60 * SCALE
        /\ ~IsNull(ind.adxData)
        /\ ind.adxData.adx > 25 * SCALE
        /\ ind.adxData.plusDI > ind.adxData.minusDI
  IN LevelsFrom(EntryZone(ind.lastPrice, ind.atr14, st.support, st.fib,
                          isStrongBullishBreakout, sc.compositeScore), ind, st)

\* "Build indicators object"
IndicatorValues(ind) ==
  [rsi14 |-> round(ind.rsi14Val, 2), rsi7 |-> round(ind.rsi7Val, 2),
   ema20 |-> RoundedOrZero(ind.ema20), ema50 |-> RoundedOrZero(ind.ema50),
   ema200 |-> RoundedOrZero(ind.ema200),
   macdLine |-> IF IsNull(ind.macdData) THEN 0 ELSE round(ind.macdData.macdLine, 8),
   macdSignal |-> IF IsNull(ind.macdData) THEN 0 ELSE round(ind.macdData.signalLine, 8),
   macdHistogram |-> IF IsNull(ind.macdData) THEN 0 ELSE round(ind.macdData.histogram, 8),
   atr14 |-> round(ind.atr14, guessDp(ind.atr14)), atrPercent |-> round(ind.atrPercent, 2),
   stochK |-> IF IsNull(ind.stochData) THEN 50 * SCALE ELSE round(ind.stochData.k, 2),
   stochD |-> IF IsNull(ind.stochData) THEN 50 * SCALE ELSE round(ind.stochData.d, 2),
   bbUpper |-> IF IsNull(ind.bbData) THEN 0
               ELSE round(ind.bbData.upper, guessDp(ind.bbData.upper)),
   bbMiddle |-> IF IsNull(ind.bbData) THEN 0
                ELSE round(ind.bbData.middle, guessDp(ind.bbData.middle)),
   bbLower |-> IF IsNull(ind.bbData) THEN 0
               ELSE round(ind.bbData.lower, guessDp(ind.bbData.lower)),
   bbWidth |-> IF IsNull(ind.bbData) THEN 0 ELSE round(ind.bbData.width, 2),
   obvTrend |-> ind.obvTrendVal,
   adx |-> IF IsNull(ind.adxData) THEN 0 ELSE round(ind.adxData.adx, 2),
   plusDI |-> IF IsNull(ind.adxData) THEN 0 ELSE round(ind.adxData.plusDI, 2),
   minusDI |-> IF IsNull(ind.adxData) THEN 0 ELSE round(ind.adxData.minusDI, 2)]

\* the SignalScore object
SignalScore(sc) ==
  [trend |-> round(sc.trendScore, 1), momentum |-> round(sc.momentumScore, 1),
   volatility |-> round(sc.volatilityScore, 1), structure |-> round(sc.structureScore, 1),
   volume |-> round(sc.volumeScore, 1), composite |-> round(sc.compositeScore, 1)]

\* The returned AnalysisResult, next to the local variables it is built from
ResultOf(quote, now, ind, st, sc, lv, verdict) ==
  [locals |->
     [lastPrice |-> ind.lastPrice, ema20 |-> ind.ema20, ema50 |-> ind.ema50,
      ema200 |-> ind.ema200, rsi14Val |-> ind.rsi14Val, rsi7Val |-> ind.rsi7Val,
      atr14 |-> ind.atr14, atrPercent |-> ind.atrPercent, macdData |-> ind.macdData,
      stochData |-> ind.stochData, bbData |-> ind.bbData, adxData |-> ind.adxData,
      obvTrendVal |-> ind.obvTrendVal,
      swingHighs |-> st.swingHighs, swingLows |-> st.swingLows,
      structureData |-> st.structureData,
      trendScore |-> sc.trendScore, momentumScore |-> sc.momentumScore,
      volatilityScore |-> sc.volatilityScore, structureScore |-> sc.structureScore,
      volumeScore |-> sc.volumeScore, compositeScore |-> sc.compositeScore,
      isBreakoutEntry |-> lv.entry.isBreakoutEntry, branch |-> lv.entry.branch,
      risk |-> lv.sl.risk, maxT2Price |-> lv.maxT2Price, maxT3Price |-> lv.maxT3Price],
   result |->
     [verdict |-> verdict,
      levels |-> [entryLow |-> lv.entry.entryLow, entryHigh |-> lv.entry.entryHigh,
                  entryMid |-> lv.entry.entryMid, stop |-> lv.sl.stop,
                  t1 |-> lv.tg.t1, t2 |-> lv.tg.t2, t3 |-> lv.tg.t3],
      tradePlan |-> [entryZone |-> << formatPrice(lv.entry.entryLow, quote),
                                      formatPrice(lv.entry.entryHigh, quote) >>,
                     stopLoss |-> formatPrice(lv.sl.stop, quote),
                     target1 |-> formatPrice(lv.tg.t1, quote),
                     target2 |-> formatPrice(lv.tg.t2, quote),
                     target3 |-> formatPrice(lv.tg.t3, quote)],
      riskSummary |-> [riskLevel |-> RiskLevelOf(ind.atrPercent, sc.compositeScore),
                       confidence |-> ConfidenceOf(sc.trendScore, sc.momentumScore,
                                                   sc.structureScore, sc.volumeScore,
                                                   sc.compositeScore),
                       reasons |-> Reasons(ind.ema200, lv.entry.isBreakoutEntry, ind.adxData,
                                           sc.trendScore, sc.trend, ind.rsi14Val,
                                           ind.macdData, st.support, ind.lastPrice, quote,
                                           ind.atrPercent, lv.rr, sc.compositeScore, verdict)],
      meta |-> [trend |-> sc.trend,
                adx |-> IF IsNull(ind.adxData) THEN 0 ELSE ind.adxData.adx,
                indicators |-> IndicatorValues(ind), signals |-> SignalScore(sc),
                support |-> st.support, resistance |-> st.resistance, fib |-> st.fib,
                swingHigh |-> st.recentHigh, swingLow |-> st.recentLow,
                lastPrice |-> round(ind.lastPrice, guessDp(ind.lastPrice)),
                quote |-> quote, analysisTimestamp |-> now]]]

\* verdict, reasons and result from the scores and levels
Conclude(pair, now, ind, st, sc, lv) ==
  ResultOf(QuoteOf(pair), now, ind, st, sc, lv,
           Verdict(sc.compositeScore, ind.rsi14Val, sc.momentumScore, sc.trendScore,
                   sc.trend, sc.volumeScore))

\* scores, then levels, then the result
Score(pair, now, ind, st, sc) == Conclude(pair, now, ind, st, sc, LevelsOf(ind, st, sc))

\* structure, then the scores and what follows
Examine(pair, now, ind, st) == Score(pair, now, ind, st, ScoresOf(ind, st))

\* indicators, then the structure and what follows
Measure(pair, candles, now, ind) ==
  Examine(pair, now, ind, StructureOf(candles, ind.lastPrice))

\* The body of analyseCandles after the length check.  locals holds the
\* function's local variables, result the returned AnalysisResult.
AnalyseBody(pair, candles, now) == Measure(pair, candles, now, Indicators(candles))

\* analyseCandles rejecting exactly MIN_CANDLES candles as well
analyseCandlesOffByOne(pair, candles, now) ==
  IF Len(candles) <= MIN_CANDLES
  THEN [threw |-> TRUE, need |-> MIN_CANDLES, got |-> Len(candles)]
  ELSE [threw |-> FALSE] @@ AnalyseBody(pair, candles, now)

\* analyseCandles: throws below MIN_CANDLES candles, else returns the result
analyseCandles(pair, candles, now) ==
  IF Len(candles) < MIN_CANDLES
  THEN [threw |-> TRUE, need |-> MIN_CANDLES, got |-> Len(candles)]
  ELSE [threw |-> FALSE] @@ AnalyseBody(pair, candles, now)

(* ---------- the caller: candle arrays handed to analyseCandles ---------- *)

\* Largest per-candle slope of a generated series, in steps of 0.20
MaxSlope == 2

\* Largest zigzag amplitude of a generated series, in steps of 0.40 per candle
MaxAmp == 1

\* triangle wave 0, 1, .., per/2, .., 1 of period per
Tri(i, per) ==
  LET j == i % per IN IF j <= per \div 2 THEN j ELSE per - j

\* Candle i (0-based) of the series described by g: closes follow slope s1 up
\* to candle brk and s2 after it, plus a zigzag of amplitude amp; highs and
\* lows sit wu above and wd below the close, with their own zigzags (hamp,
\* lamp) and drifts (hd, ld); volume starts at v0 and grows by vd per candle.
\* The parameters are in hundredths.
GenCandle(g, i) ==
  LET u == SCALE \div 100
      c == g.base + g.s1 * Min2(i, g.brk) + g.s2 * Max2(0, i - g.brk) + g.amp * Tri(i, g.per)
  IN [open   |-> u * c,
      high   |-> u * (c + g.wu + g.hamp * Tri(i, g.per) + g.hd * i),
      low    |-> u * (c - g.wd - g.lamp * Tri(i + g.per \div 2, g.per) + g.ld * i),
      close  |-> u * c,
      volume |-> u * (g.v0 + g.vd * i)]

GenCandles(g) == [k \in 1..g.n |-> GenCandle(g, k - 1)]

Slopes == {20 * k : k \in (-MaxSlope)..MaxSlope}

Amps == {40 * k : k \in 0..MaxAmp}

\* straight series of every length of interest, with or without wicks and volume
LinearInputs ==
  [n : {59, 60, 199, 200, 300}, base : {5000, 30000}, s1 : Slopes, s2 : {0}, brk : {300}, amp : {0},
   per : {8}, wu : {0, 50}, wd : {0}, hamp : {0}, lamp : {0}, hd : {0}, ld : {0},
   v0 : {0, 100}, vd : {0}]

\* two-slope series with a zigzag
PiecewiseInputs ==
  [n : {300}, base : {30000}, s1 : Slopes, s2 : Slopes, brk : {150, 250}, amp : Amps,
   per : {8}, wu : {20}, wd : {20}, hamp : {0}, lamp : {0}, hd : {0}, ld : {0},
   v0 : {100}, vd : {0, 1}]

\* falling closes under long wicks whose highs and lows zigzag and drift upwards
WickInputs ==
  [n : {300}, base : {30000}, s1 : {-5}, s2 : {-2, -5}, brk : {150}, amp : {0},
   per : {8}, wu : {0}, wd : {2000}, hamp : {0, 100}, lamp : {0, 30}, hd : {0, 10},
   ld : {0, 5}, v0 : {100}, vd : {0, 1}]

\* a zigzag around 50.00 followed by a rally that leaves the swing lows more
\* than 10% below the last price
RallyInputs ==
  [n : {300}, base : {5000}, s1 : {0}, s2 : {20 * MaxSlope}, brk : {250, 280}, amp : {40},
   per : {8}, wu : {20}, wd : {20}, hamp : {0}, lamp : {0}, hd : {0}, ld : {0},
   v0 : {100}, vd : {0}]

\* a fall from 50.00 to 20.00 followed by a zigzag under a resistance
RangeInputs ==
  [n : {300}, base : {5000}, s1 : {-20}, s2 : {0}, brk : {150}, amp : {40},
   per : {8}, wu : {50}, wd : {0, 50}, hamp : {0}, lamp : {0}, hd : {0}, ld : {0},
   v0 : {100}, vd : {0}]

\* a slow fall whose lows zigzag, followed by a slide too steep for the lows
\* to form swing lows, with or without zigzagging highs
SlideInputs ==
  [n : {300}, base : {30000}, s1 : {-5}, s2 : {-20 * MaxSlope}, brk : {230}, amp : {0},
   per : {8}, wu : {0}, wd : {0}, hamp : {0, 100}, lamp : {30}, hd : {0}, ld : {0},
   v0 : {100}, vd : {0}]

Inputs ==
  LinearInputs \cup PiecewiseInputs \cup WickInputs \cup RallyInputs \cup RangeInputs
    \cup SlideInputs

\* the Candle invariants of the data model
IsValidCandle(c) ==
  /\ c.low > 0
  /\ c.high >= c.low
  /\ c.low <= c.close /\ c.close <= c.high
  /\ c.volume >= 0

\* the inputs a caller may pass: every candle satisfies the data model
ValidInputs ==
  {g \in Inputs : \A i \in 0..(g.n - 1) : IsValidCandle(GenCandle(g, i))}

PairLabels == {[segments |-> << "btc", "usd" >>, sep |-> "-"]}

(* ---------- state machine: one call of analyseCandles ---------- *)

VARIABLES
  pc,        \* "idle", "called", "returned" or "threw"; "scored", "decided";
             \* "series", "applied"; "upstream", "fetched"
  pair,      \* the pair label of the call
  candles,   \* the candle array of the call
  now,       \* Date.now()
  scores,    \* sub-scores and RSI handed to the verdict stage on its own
  out        \* what the call produced: the Error thrown or locals and result

vars == << pc, pair, candles, now, scores, out >>

NoOutcome == [threw |-> FALSE, none |-> TRUE]

NoScores == [none |-> TRUE]

Init ==
  /\ pc = "idle"
  /\ pair = [segments |-> << >>, sep |-> "/"]
  /\ candles = << >>
  /\ now = 0
  /\ scores = NoScores
  /\ out = NoOutcome

\* a caller passes a pair label and a valid candle array
Call ==
  /\ pc = "idle"
  /\ \E p \in PairLabels, g \in ValidInputs :
       /\ pair' = p
       /\ candles' = GenCandles(g)
  /\ pc' = "called"
  /\ UNCHANGED << now, scores, out >>

\* analyseCandles runs to completion: it throws or returns
Analyse ==
  /\ pc = "called"
  /\ out' = analyseCandles(pair, candles, now)
  /\ pc' = IF out'.threw THEN "threw" ELSE "returned"
  /\ now' = now + 1
  /\ UNCHANGED << pair, candles, scores >>

Next == Call \/ Analyse

Spec == Init /\ [][Next]_vars

Returned == pc = "returned"

(* ---------- one candle array under several pair labels ---------- *)

\* labels with a "-" or "/" separator, with and without a quote segment
AllPairLabels ==
  {[segments |-> << "btc", "usd" >>, sep |-> "-"],
   [segments |-> << "eth", "eur" >>, sep |-> "/"],
   [segments |-> << "btc" >>, sep |-> "/"]}

\* candle arrays of both lengths, trending and ranging, handed over with each label
LabelInputs ==
  {g \in ValidInputs :
     /\ g.n \in {60, 300} /\ g.base = 30000 /\ g.v0 = 100 /\ g.vd = 0
     /\ g.s1 \in {-20, 0, 20} /\ g.s2 \in {0, 20} /\ g.wd \in {0, 20}}

\* a caller passes any pair label with a candle array
CallLabelled ==
  /\ pc = "idle"
  /\ \E p \in AllPairLabels, g \in LabelInputs :
       /\ pair' = p
       /\ candles' = GenCandles(g)
  /\ pc' = "called"
  /\ UNCHANGED << now, scores, out >>

PairNext == CallLabelled \/ Analyse

PairSpec == Init /\ [][PairNext]_vars

(* ---------- the indicator functions on short series ---------- *)

\* Longest series handed to an indicator function on its own
MaxSeriesLen == 5

\* Largest period handed to an indicator function on its own
MaxPeriod == 2

\* closes around 1.00
SeriesPrices == {9900, 10000, 10100, 10250}

\* every series of closes up to MaxSeriesLen values, the empty one included
SeriesInputs == UNION {[1..n -> SeriesPrices] : n \in 0..MaxSeriesLen}

\* period, signal period (also the %D period) and the wick of each candle
ParamInputs == [period : 1..MaxPeriod, signal : 1..2, wick : {0, 50}]

\* the candle of a close: high and low one wick away from it
CandleOf(close, wick) ==
  [open |-> close, high |-> close + wick, low |-> close - wick, close |-> close,
   volume |-> SCALE]

SeriesInit ==
  /\ pc = "series"
  /\ pair = [segments |-> << >>, sep |-> "/"]
  /\ \E cs \in SeriesInputs, p \in ParamInputs :
       /\ candles = [i \in 1..Len(cs) |-> CandleOf(cs[i], p.wick)]
       /\ scores = p
  /\ now = 0
  /\ out = NoOutcome

\* each indicator function applied to the series; macd runs with
\* fast = period and slow = period + 1, as its alignment loop takes fast <= slow
Apply ==
  /\ pc = "series"
  /\ out' = [threw |-> FALSE,
             sma |-> sma(Closes(candles), scores.period),
             ema |-> ema(Closes(candles), scores.period),
             rsi |-> rsi(Closes(candles), scores.period),
             atr |-> atr(candles, scores.period),
             macd |-> macd(Closes(candles), scores.period, scores.period + 1, scores.signal),
             stochastic |-> stochastic(candles, scores.period, scores.signal),
             bollingerBands |-> bollingerBands(Closes(candles), scores.period, 2),
             adx |-> adx(candles, scores.period)]
  /\ pc' = "applied"
  /\ UNCHANGED << pair, candles, now, scores >>

SeriesNext == Apply

SeriesSpec == SeriesInit /\ [][SeriesNext]_vars

Applied == pc = "applied"

(* ---------- fetchOhlc: the upstream rows that become candles ---------- *)

\* Most rows in one upstream answer
MaxRows == 3

\* 1e-8 in units of 1e-9, the unit of the prices of this section
CANDLE_CLOSE_EPS == 10

\* a field of an upstream row: a decimal text, a text that is no number, or
\* the text "Infinity"
Decimal(units) == [kind |-> "decimal", units |-> units]

NoNumberText == [kind |-> "text", units |-> 0]

InfinityText == [kind |-> "infinity", units |-> 0]

\* Number(x): the value of a decimal text, NaN for any other text, Infinity
\* for "Infinity"
Number(raw) ==
  CASE raw.kind = "decimal" -> [isNaN |-> FALSE, isInf |-> FALSE, units |-> raw.units]
    [] raw.kind = "infinity" -> [isNaN |-> FALSE, isInf |-> TRUE, units |-> 0]
    [] OTHER -> [isNaN |-> TRUE, isInf |-> FALSE, units |-> 0]

isFinite(x) == ~x.isNaN /\ ~x.isInf

\* a < b on numbers; every comparison with NaN is false
Less(a, b) ==
  /\ ~a.isNaN /\ ~b.isNaN
  /\ \/ isFinite(a) /\ isFinite(b) /\ a.units < b.units
     \/ isFinite(a) /\ b.isInf

\* a finite number moved by d units
Plus(a, d) == IF isFinite(a) THEN [a EXCEPT !.units = @ + d] ELSE a

GoodRow ==
  [length |-> 8, time |-> Decimal(1700000000), open |-> Decimal(1000000),
   high |-> Decimal(1000200), low |-> Decimal(999900), close |-> Decimal(1000100),
   vwap |-> Decimal(1000050), volume |-> Decimal(5000000), count |-> Decimal(12)]

\* the rows an upstream answer is made of: a good row, and rows that differ
\* from it in one respect
RowInputs ==
  {GoodRow,
   [GoodRow EXCEPT !.length = 7],
   [GoodRow EXCEPT !.open = NoNumberText],
   [GoodRow EXCEPT !.high = NoNumberText],
   [GoodRow EXCEPT !.low = NoNumberText],
   [GoodRow EXCEPT !.close = NoNumberText],
   [GoodRow EXCEPT !.vwap = NoNumberText],
   [GoodRow EXCEPT !.volume = NoNumberText],
   [GoodRow EXCEPT !.high = InfinityText],
   [GoodRow EXCEPT !.volume = InfinityText],
   [GoodRow EXCEPT !.high = Decimal(999000)],
   [GoodRow EXCEPT !.close = Decimal(1000205)],
   [GoodRow EXCEPT !.close = Decimal(1000210)],
   [GoodRow EXCEPT !.close = Decimal(1000211)],
   [GoodRow EXCEPT !.close = Decimal(999889)],
   [GoodRow EXCEPT !.high = Decimal(1000000), !.low = Decimal(1000000),
                   !.close = Decimal(1000000)]}

\* what the upstream answers: an HTTP failure, an error list, a result
\* without the pair's array, or rows
ResponseInputs == {"http error", "api error", "no array", "rows"}

parseCandle(raw) ==
  [time |-> Number(raw.time), open |-> Number(raw.open), high |-> Number(raw.high),
   low |-> Number(raw.low), close |-> Number(raw.close), vwap |-> Number(raw.vwap),
   volume |-> Number(raw.volume), count |-> Number(raw.count)]

isCandleValid(c) ==
  IF ~(isFinite(c.open) /\ isFinite(c.high) /\ isFinite(c.low) /\ isFinite(c.close))
  THEN FALSE
  ELSE IF Less(c.high, c.low) THEN FALSE
  ELSE IF Less(c.close, Plus(c.low, -CANDLE_CLOSE_EPS))
          \/ Less(Plus(c.high, CANDLE_CLOSE_EPS), c.close) THEN FALSE
  ELSE IF ~isFinite(c.volume) THEN FALSE
  ELSE TRUE

\* rawCandles.slice(0, -1): all rows but the last
AllButLast(rows) == SubSeq(rows, 1, Len(rows) - 1)

\* the rows that are arrays of at least 8 fields
FullRows(rows) == SelectSeq(rows, LAMBDA row : row.length >= 8)

ParsedRows(rows) == [i \in 1..Len(rows) |-> parseCandle(rows[i])]

fetchOhlc(response, rawCandles) ==
  IF response # "rows" THEN [threw |-> TRUE, candles |-> << >>]
  ELSE [threw |-> FALSE,
        candles |-> SelectSeq(ParsedRows(FullRows(AllButLast(rawCandles))), isCandleValid)]

\* candles holds the upstream rows, scores the kind of answer
FetchInit ==
  /\ pc = "upstream"
  /\ pair = [segments |-> << >>, sep |-> "/"]
  /\ \E n \in 0..MaxRows : candles \in [1..n -> RowInputs]
  /\ scores \in ResponseInputs
  /\ now = 0
  /\ out = NoOutcome

Fetch ==
  /\ pc = "upstream"
  /\ out' = fetchOhlc(scores, candles)
  /\ pc' = "fetched"
  /\ UNCHANGED << pair, candles, now, scores >>

FetchNext == Fetch

FetchSpec == FetchInit /\ [][FetchNext]_vars

Fetched == pc = "fetched" /\ ~out.threw

(* ---------- detectMarketStructure on swing points of its own ---------- *)

\* Most swing highs, and most swing lows, handed to detectMarketStructure
MaxSwings == 5

\* a swing price against the one before it: lower, equal or higher
SwingSteps == {-1, 0, 1}

\* price of swing point i of a series that starts at 10.00 and moves by 1.00
\* per step
SwingPrice(steps, i) == 10 * SCALE + SCALE * FoldL(LAMBDA acc, j : acc + steps[j], 1, i - 1, 0)

\* the swing points {price, index} described by n - 1 steps
SwingPoints(n, steps) == [i \in 1..n |-> [price |-> SwingPrice(steps, i), index |-> 3 * i]]

\* every series of up to MaxSwings swing points
SwingInputs ==
  {<< >>} \cup UNION {{SwingPoints(n, steps) : steps \in [1..(n - 1) -> SwingSteps]} : n \in 1..MaxSwings}

SwingInit ==
  /\ pc = "swings"
  /\ pair = [segments |-> << >>, sep |-> "/"]
  /\ candles = << >>
  /\ now = 0
  /\ \E hs \in SwingInputs, ls \in SwingInputs : scores = [swingHighs |-> hs, swingLows |-> ls]
  /\ out = NoOutcome

Classify ==
  /\ pc = "swings"
  /\ out' = [threw |-> FALSE,
             structureData |-> detectMarketStructure(scores.swingHighs, scores.swingLows)]
  /\ pc' = "classified"
  /\ UNCHANGED << pair, candles, now, scores >>

SwingNext == Classify

SwingSpec == SwingInit /\ [][SwingNext]_vars

Classified == pc = "classified"

(* ---------- the OHLC proxy and its cache ---------- *)

\* 60 * 1000 ms, 60 seconds
OHLC_TTL_MS == 60000

DEFAULT_LIMIT == 200

\* Latest time of the clock, in steps of half a time-to-live
MaxTicks == 4

\* the keys `${resolvedPairKey}:${interval}` of two markets
CacheKeys == {"XXBTZUSD:240", "XETHZUSD:60"}

\* validated values of the limit parameter: an explicit one and the default
Limits == {2, DEFAULT_LIMIT}

\* the two requests that may be under way at the same time
Requests == {1, 2}

\* what fetchOhlc returns for a request sent at time t: the closed candles
\* so far, one more every half time-to-live, numbered by their time
UpstreamSeries(t) == [i \in 1..(3 + (2 * t) \div OHLC_TTL_MS) |-> i]

NoEntry == [present |-> FALSE, data |-> << >>, last |-> 0, expiresAt |-> 0]

NoRequest == [pending |-> FALSE]

NoResponse == [source |-> "none"]

\* allCandles.slice(-limit), limit >= 1
SliceLast(data, limit) == LastK(data, limit)

\* cached && Date.now() < cached.expiresAt, true at the expiry instant too
IsFreshAtExpiry(cached, t) == cached.present /\ t <= cached.expiresAt

\* cached && Date.now() < cached.expiresAt
IsFresh(cached, t) == cached.present /\ t < cached.expiresAt

\* scores holds ohlcCache, out the requests under way and the last response
ProxyInit ==
  /\ pc = "proxy"
  /\ pair = [segments |-> << >>, sep |-> "/"]
  /\ candles = << >>
  /\ now = 0
  /\ scores = [k \in CacheKeys |-> NoEntry]
  /\ out = [threw |-> FALSE, requests |-> [r \in Requests |-> NoRequest],
            response |-> NoResponse]

\* time passes
Tick ==
  /\ pc = "proxy"
  /\ now < MaxTicks * (OHLC_TTL_MS \div 2)
  /\ now' = now + OHLC_TTL_MS \div 2
  /\ UNCHANGED << pc, pair, candles, scores, out >>

\* GET with a fresh cache entry: answered from the cache
GetHit ==
  /\ pc = "proxy"
  /\ \E r \in Requests, k \in CacheKeys, limit \in Limits :
       /\ ~out.requests[r].pending
       /\ IsFresh(scores[k], now)
       /\ out' = [out EXCEPT !.response =
                    [source |-> "cache", key |-> k, limit |-> limit, at |-> now,
                     last |-> scores[k].last,
                     candles |-> SliceLast(scores[k].data, limit)]]
  /\ UNCHANGED << pc, pair, candles, now, scores >>

\* GET without a fresh cache entry: fetchOhlc is awaited
GetMiss ==
  /\ pc = "proxy"
  /\ \E r \in Requests, k \in CacheKeys, limit \in Limits :
       /\ ~out.requests[r].pending
       /\ ~IsFresh(scores[k], now)
       /\ out' = [out EXCEPT !.requests[r] =
                    [pending |-> TRUE, key |-> k, limit |-> limit, sentAt |-> now,
                     allCandles |-> UpstreamSeries(now)]]
  /\ UNCHANGED << pc, pair, candles, now, scores >>

\* fetchOhlc resolves: the entry is stored and the response sliced from it
GetFetched ==
  /\ pc = "proxy"
  /\ \E r \in Requests :
       /\ out.requests[r].pending
       /\ LET q == out.requests[r]
              last == Len(q.allCandles)
          IN /\ scores' = [scores EXCEPT ![q.key] =
                             [present |-> TRUE, data |-> q.allCandles, last |-> last,
                              expiresAt |-> now + OHLC_TTL_MS]]
             /\ out' = [out EXCEPT !.requests[r] = NoRequest,
                                   !.response =
                                     [source |-> "upstream", key |-> q.key,
                                      limit |-> q.limit, at |-> now, last |-> last,
                                      candles |-> SliceLast(q.allCandles, q.limit)]]
  /\ UNCHANGED << pc, pair, candles, now >>

\* fetchOhlc rejects: status 502, the cache is left alone
GetFailed ==
  /\ pc = "proxy"
  /\ \E r \in Requests :
       /\ out.requests[r].pending
       /\ out' = [out EXCEPT !.requests[r] = NoRequest,
                             !.response = [source |-> "error", key |-> out.requests[r].key,
                                           limit |-> out.requests[r].limit, at |-> now,
                                           status |-> 502]]
  /\ UNCHANGED << pc, pair, candles, now, scores >>

ProxyNext == Tick \/ GetHit \/ GetMiss \/ GetFetched \/ GetFailed

ProxySpec == ProxyInit /\ [][ProxyNext]_vars

(* ---------- the scan handler ---------- *)

\* what can happen to one pair of a scan: the fetch rejects, the OHLC endpoint
\* answers with an error status, the answer carries no candle array or only
\* 59 candles, analyseCandles throws, or it returns one of the verdicts
ScanOutcomes ==
  {"fetch rejects", "not ok", "no candles", "59 candles", "analysis throws",
   "Strong Buy", "Buy", "Wait"}

\* the outcomes of the pairs of one scan: pair i meets outcome i of the
\* pattern, repeated as often as needed
ScanPatterns == [1..2 -> ScanOutcomes]

\* numbers of pairs selected: none, a few, and one more than each batch size
ScanPairCounts == {0, 1, 3, 41, 101, 201}

ScanBatches == {"quick", "medium", "full"}

\* batchSize === "full" ? 200 : batchSize === "medium" ? 100 : 40
MaxPairsOf(batchSize) ==
  IF batchSize = "full" THEN 200 ELSE IF batchSize = "medium" THEN 100 ELSE 40

\* pairs.slice(0, maxPairs): the pairs are named by their position
LimitedPairs(n, batchSize) == [i \in 1..Min2(n, MaxPairsOf(batchSize)) |-> i]

OutcomeOf(pattern, p) == pattern[((p - 1) % Len(pattern)) + 1]

\* composite score reported with each verdict
ScanComposite(verdict) ==
  IF verdict = "Strong Buy" THEN 55 * SCALE ELSE IF verdict = "Buy" THEN 25 * SCALE
  ELSE 5 * SCALE

\* ScanOne without the catch: a pair whose fetch or analysis throws leaves no entry
ScanOneUncaught(p, outcome) ==
  IF outcome = "fetch rejects" THEN << >>
  ELSE IF outcome = "not ok"
  THEN << [pair |-> p, success |-> FALSE, error |-> "Failed to fetch data"] >>
  ELSE IF outcome \in {"no candles", "59 candles"}
  THEN << [pair |-> p, success |-> FALSE, error |-> "Insufficient data"] >>
  ELSE IF outcome = "analysis throws" THEN << >>
  ELSE << [pair |-> p, success |-> TRUE,
           data |-> [verdict |-> outcome, compositeScore |-> ScanComposite(outcome)]] >>

\* the entries one iteration of the loop pushes onto results
ScanOne(p, outcome) ==
  IF outcome = "fetch rejects"
  THEN << [pair |-> p, success |-> FALSE, error |-> "fetch failed"] >>
  ELSE IF outcome = "not ok"
  THEN << [pair |-> p, success |-> FALSE, error |-> "Failed to fetch data"] >>
  ELSE IF outcome \in {"no candles", "59 candles"}
  THEN << [pair |-> p, success |-> FALSE, error |-> "Insufficient data"] >>
  ELSE IF outcome = "analysis throws"
  THEN << [pair |-> p, success |-> FALSE, error |-> "Analysis failed"] >>
  ELSE << [pair |-> p, success |-> TRUE,
           data |-> [verdict |-> outcome, compositeScore |-> ScanComposite(outcome)]] >>

\* stable insertion of a successful entry by descending composite score
InsertByComposite(list, e) ==
  LET k == Cardinality({i \in 1..Len(list) :
                          list[i].data.compositeScore >= e.data.compositeScore})
  IN SubSeq(list, 1, k) \o << e >> \o SubSeq(list, k + 1, Len(list))

Successful(results) == SelectSeq(results, LAMBDA r : r.success)

Failed(results) == SelectSeq(results, LAMBDA r : ~r.success)

Reversed(s) == [i \in 1..Len(s) |-> s[Len(s) + 1 - i]]

\* results.sort(...): successful entries first, by descending composite
\* score; the comparator does not order two failed entries, which come out
\* in an order the engine chooses
SortedResults(results, failedReversed) ==
  FoldL(LAMBDA acc, i : InsertByComposite(acc, Successful(results)[i]),
        1, Len(Successful(results)), << >>)
  \o (IF failedReversed THEN Reversed(Failed(results)) ELSE Failed(results))

BuySignals(successful) ==
  SelectSeq(successful, LAMBDA r : r.data.verdict = "Buy" \/ r.data.verdict = "Strong Buy")

\* scores holds the request (batch, pairs) and the outcome each pair meets
ScanInit ==
  /\ pc = "scanning"
  /\ pair = [segments |-> << >>, sep |-> "/"]
  /\ candles = << >>
  /\ now = 0
  /\ \E n \in ScanPairCounts, b \in ScanBatches, pattern \in ScanPatterns :
       scores = [pairs |-> n, batch |-> b, pattern |-> pattern]
  /\ out = [threw |-> FALSE, done |-> 0, results |-> << >>]

\* one iteration of the for-loop
ScanPair ==
  /\ pc = "scanning"
  /\ out.done < Len(LimitedPairs(scores.pairs, scores.batch))
  /\ LET p == LimitedPairs(scores.pairs, scores.batch)[out.done + 1]
     IN out' = [out EXCEPT !.done = @ + 1,
                           !.results = @ \o ScanOne(p, OutcomeOf(scores.pattern, p))]
  /\ UNCHANGED << pc, pair, candles, now, scores >>

\* after the loop: sort, summary and response
ScanRespond ==
  /\ pc = "scanning"
  /\ out.done = Len(LimitedPairs(scores.pairs, scores.batch))
  /\ \E failedReversed \in BOOLEAN :
       LET results == SortedResults(out.results, failedReversed)
       IN out' = [threw |-> FALSE, done |-> out.done, results |-> results,
                  totalScanned |-> Len(results),
                  successfulScans |-> Len(Successful(results)),
                  buySignals |-> Len(BuySignals(Successful(results)))]
  /\ pc' = "responded"
  /\ UNCHANGED << pair, candles, now, scores >>

ScanNext == ScanPair \/ ScanRespond

ScanSpec == ScanInit /\ [][ScanNext]_vars

(* ---------- the AssetPairs cache and its single flight ---------- *)

\* 24 * 60 * 60 * 1000 ms, 24 hours
ASSET_PAIRS_TTL_MS == 86400000

\* Latest time of the clock, in steps of half a time-to-live
MaxHalfDays == 4

\* The calls of fetchAssetPairs and the upstream requests that are followed
MaxCalls == 5

MaxFetches == 3

FetchIds == 1..MaxFetches

\* assetPairsCache = null
NoPairsCache == [present |-> FALSE, data |-> 0, expiresAt |-> 0]

\* assetPairsPromise = null
NoPromise == [active |-> FALSE, id |-> 0]

\* an upstream request that has not been made
Unsent == [stage |-> "unsent"]

\* assetPairsCache && Date.now() < assetPairsCache.expiresAt
PairsCacheFresh(cache, t) == cache.present /\ t < cache.expiresAt

\* if (assetPairsPromise), never taken
HasPendingNever(promise) == FALSE

\* if (assetPairsPromise)
HasPending(promise) == promise.active

\* the upstream requests that have been sent and have not settled
InFlight == {i \in FetchIds : out.fetches[i].stage \in {"fetch", "json"}}

\* the next upstream request, MaxFetches + 1 when all have been made
NextFetch ==
  IF \E i \in FetchIds : out.fetches[i].stage = "unsent"
    THEN CHOOSE i \in FetchIds :
           /\ out.fetches[i].stage = "unsent"
           /\ \A j \in FetchIds : out.fetches[j].stage = "unsent" => i <= j
    ELSE MaxFetches + 1

\* scores holds assetPairsCache, out the marker assetPairsPromise, the
\* upstream requests and what each call of fetchAssetPairs returned
PairsInit ==
  /\ pc = "pairs"
  /\ pair = [segments |-> << >>, sep |-> "/"]
  /\ candles = << >>
  /\ now = 0
  /\ scores = NoPairsCache
  /\ out = [threw |-> FALSE, promise |-> NoPromise,
            fetches |-> [i \in FetchIds |-> Unsent], calls |-> << >>]

\* time passes
PairsTick ==
  /\ pc = "pairs"
  /\ now < MaxHalfDays * (ASSET_PAIRS_TTL_MS \div 2)
  /\ now' = now + ASSET_PAIRS_TTL_MS \div 2
  /\ UNCHANGED << pc, pair, candles, scores, out >>

\* one call, up to its return: the cached data, the pending promise, or the
\* promise of a request that the call starts (the async function runs up to
\* its first await, the fetch, before the marker is assigned).  The data of
\* request i is written i.
fetchAssetPairs ==
  /\ pc = "pairs"
  /\ Len(out.calls) < MaxCalls
  /\ IF PairsCacheFresh(scores, now)
       THEN out' = [out EXCEPT !.calls =
                      Append(@, [at |-> now, kind |-> "cache", id |-> scores.data,
                                 pending |-> InFlight])]
       ELSE IF HasPending(out.promise)
         THEN out' = [out EXCEPT !.calls =
                        Append(@, [at |-> now, kind |-> "promise", id |-> out.promise.id,
                                   pending |-> InFlight])]
         ELSE /\ NextFetch <= MaxFetches
              /\ out' = [out EXCEPT
                           !.fetches[NextFetch] = [stage |-> "fetch", sentAt |-> now],
                           !.promise = [active |-> TRUE, id |-> NextFetch],
                           !.calls = Append(@, [at |-> now, kind |-> "promise",
                                                id |-> NextFetch, pending |-> InFlight])]
  /\ UNCHANGED << pc, pair, candles, now, scores >>

\* the request throws or rejects: only the finally clause runs
PairsFailed(i) ==
  /\ out' = [out EXCEPT !.fetches[i] = [stage |-> "failed", sentAt |-> @.sentAt,
                                        settledAt |-> now, cacheBefore |-> scores,
                                        cacheAfter |-> scores],
                        !.promise = NoPromise]
  /\ UNCHANGED scores

\* the request returns json.result: the cache is assigned, then the finally
\* clause runs
PairsSucceeded(i) ==
  LET stored == [present |-> TRUE, data |-> i, expiresAt |-> now + ASSET_PAIRS_TTL_MS]
  IN /\ scores' = stored
     /\ out' = [out EXCEPT !.fetches[i] = [stage |-> "ok", sentAt |-> @.sentAt,
                                           settledAt |-> now, cacheBefore |-> scores,
                                           cacheAfter |-> stored],
                           !.promise = NoPromise]

\* await fetch(ASSET_PAIRS_URL) settles: a response that is ok, one that is
\* not, or a rejection
PairsResponded ==
  /\ pc = "pairs"
  /\ \E i \in FetchIds :
       /\ out.fetches[i].stage = "fetch"
       /\ \E res \in {"ok", "notOk", "rejected"} :
            IF res = "ok"
              THEN /\ out' = [out EXCEPT !.fetches[i].stage = "json"]
                   /\ UNCHANGED scores
              ELSE PairsFailed(i)
  /\ UNCHANGED << pc, pair, candles, now >>

\* await res.json() settles: a body with a result, one with errors, one
\* without a result object, or a rejection
PairsParsed ==
  /\ pc = "pairs"
  /\ \E i \in FetchIds :
       /\ out.fetches[i].stage = "json"
       /\ \E body \in {"result", "error", "invalid", "rejected"} :
            IF body = "result" THEN PairsSucceeded(i) ELSE PairsFailed(i)
  /\ UNCHANGED << pc, pair, candles, now >>

PairsNext == PairsTick \/ fetchAssetPairs \/ PairsResponded \/ PairsParsed

AssetPairsSpec == PairsInit /\ [][PairsNext]_vars

(* ---------- the verdict stage on its own ---------- *)

\* Sub-score values the scorers can return and RSI values around the
\* thresholds of the upgrade and downgrade rules.  The extremes are those of
\* the scorers: trend and momentum are clamped to [-100, 100], the structure
\* score is at most 50 + 30 + 20, the volume score is -40, 0 or 40, and the
\* volatility score is at most 50 + 20 + 10 and at least -60 - 40.
ScoreInputs ==
  [trendScore      : {t * SCALE : t \in {-100, -60, -55, -45, -25, -20, -10, 20, 30, 70}},
   momentumScore   : {m * SCALE : m \in {-50, -10, 0, 50, 100}},
   structureScore  : {x * SCALE : x \in {0, 100}},
   volumeScore     : {v * SCALE : v \in {-40, 0, 40}},
   volatilityScore : {v * SCALE : v \in {-100, 80}},
   rsi14Val        : {r * SCALE : r \in {20, 50, 85}}]

ScoreInit ==
  /\ pc = "scored"
  /\ pair = [segments |-> << >>, sep |-> "/"]
  /\ candles = << >>
  /\ now = 0
  /\ scores \in ScoreInputs
  /\ out = NoOutcome

\* composite score, trend label and verdict of analyseCandles from the
\* sub-scores
Decide ==
  /\ pc = "scored"
  /\ LET compositeScore == CompositeScore(scores.trendScore, scores.momentumScore,
                                          scores.structureScore, scores.volumeScore,
                                          scores.volatilityScore)
         trend == TrendLabel(scores.trendScore)
     IN out' = [threw |-> FALSE, compositeScore |-> compositeScore, trend |-> trend,
                base |-> BaseVerdict(compositeScore),
                verdict |-> Verdict(compositeScore, scores.rsi14Val, scores.momentumScore,
                                    scores.trendScore, trend, scores.volumeScore)]
  /\ pc' = "decided"
  /\ UNCHANGED << pair, candles, now, scores >>

ScoreNext == Decide

ScoreSpec == ScoreInit /\ [][ScoreNext]_vars

Decided == pc = "decided"

(* ---------- properties ---------- *)

StrictlyDecreasingCloses(cs) == \A i \in 2..Len(cs) : cs[i].close < cs[i - 1].close

StrictlyIncreasingCloses(cs) == \A i \in 2..Len(cs) : cs[i].close > cs[i - 1].close

\* every candle has open = high = low = close equal to one positive constant
IsFlat(cs) ==
  /\ cs[1].close > 0
  /\ \A i \in 1..Len(cs) :
       /\ cs[i].open = cs[1].close /\ cs[i].high = cs[1].close
       /\ cs[i].low = cs[1].close /\ cs[i].close = cs[1].close

\* C1: the levels of every result are ordered stop < entryMid < t1 < t2 < t3.
\* The re-ordering pass repairs t3 against the capped t2 before it lifts t2
\* above t1, so t2 can end above t3.
C1_LevelsOrdered ==
  Returned =>
    LET L == out.result.levels
    IN L.stop < L.entryMid /\ L.entryMid < L.t1 /\ L.t1 < L.t2 /\ L.t2 < L.t3

\* C2: 300 candles with strictly decreasing closes never get a verdict other
\* than "Wait".  Falling closes under highs that drift upwards leave the trend
\* label Neutral, and the oversold upgrade turns Wait into Buy.
C2_DecreasingIsWait ==
  (Returned /\ Len(candles) = 300 /\ StrictlyDecreasingCloses(candles))
    => out.result.verdict = "Wait"

\* the precondition of C3 on a returned result
RisingAndTrending ==
  /\ Returned /\ Len(candles) = 300 /\ StrictlyIncreasingCloses(candles)
  /\ out.locals.ema50.val > out.locals.ema200.val
  /\ out.locals.adxData.adx > 25 * SCALE
  /\ out.locals.adxData.plusDI > out.locals.adxData.minusDI

\* C3 as stated: 300 strictly increasing closes with EMA50 > EMA200, ADX > 25
\* and +DI > -DI give trend Strong Bull or Bull and a composite score above 20.
C3_RisingBullAndComposite ==
  RisingAndTrending =>
    /\ out.result.meta.trend \in {"Strong Bull", "Bull"}
    /\ out.locals.compositeScore > 20 * SCALE

\* C3 as amended: under the same precondition the trend is Strong Bull or Bull
\* (the composite score is not bounded from below by 20: RSI is overbought).
C3_RisingBull ==
  RisingAndTrending => out.result.meta.trend \in {"Strong Bull", "Bull"}

C3_RisingBullWitness ==
  RisingAndTrending /\ out.result.meta.trend = "Strong Bull"
    /\ out.locals.compositeScore <= 20 * SCALE

\* C4: the five sub-scores and the composite score of every result lie in
\* [-100, 100].
C4_ScoresInRange ==
  Returned =>
    \A x \in {out.locals.trendScore, out.locals.momentumScore, out.locals.volatilityScore,
              out.locals.structureScore, out.locals.volumeScore, out.locals.compositeScore} :
      -100 * SCALE <= x /\ x <= 100 * SCALE

C4_ScoresInRangeWitness ==
  /\ Returned
  /\ out.locals.trendScore >= 75 * SCALE
  /\ out.locals.momentumScore <= -50 * SCALE
  /\ out.locals.compositeScore > 0

\* the precondition of C5 on a decided verdict
BearishOverrideCase ==
  /\ Decided
  /\ out.trend \in {"Bear", "Strong Bear"}
  /\ (scores.volumeScore < -20 * SCALE \/ scores.trendScore < -50 * SCALE)

\* C5: when the trend label is Bear or Strong Bear and the volume score is
\* below -20 or the trend score below -50, the verdict is "Wait".
C5_BearishOverride == BearishOverrideCase => out.verdict = "Wait"

\* the override acts: the composite alone says Buy and no downgrade applies
C5_BearishOverrideWitness ==
  /\ BearishOverrideCase
  /\ out.base = "Buy"
  /\ scores.rsi14Val <= 80 * SCALE
  /\ out.verdict = "Wait"

\* the T2 cap as C6 states it: entryMid * (1 + min(ATR% * 8, 60) / 100)
StatedT2Cap ==
  MulDiv(out.result.levels.entryMid,
         100 * SCALE + Min2(out.locals.atrPercent * 8, 60 * SCALE), 100 * SCALE)

\* C6 as stated: in every result t2 is at most the ATR%-derived cap and t3 at
\* most 1.15 times that cap.
C6_CapsBoundTargets ==
  (Returned /\ out.result.levels.entryMid > 0) =>
    /\ out.result.levels.t2 <= StatedT2Cap
    /\ out.result.levels.t3 <= Times(StatedT2Cap, 115, 100)

\* C6 as amended: with the cap taken at 30 % when ATR% is 0, t3 is at most
\* 1.15 times the cap, and t2 is at most the cap unless the re-ordering pass
\* has set it to 1.05 * t1.
C6_CapsUpToReorder ==
  (Returned /\ out.result.levels.entryMid > 0) =>
    /\ \/ out.result.levels.t2 <= out.locals.maxT2Price
       \/ out.result.levels.t2 = Times(out.result.levels.t1, 105, 100)
    /\ out.result.levels.t3 <= out.locals.maxT3Price

\* the re-ordering pass has lifted t2 above the cap
C6_CapsUpToReorderWitness ==
  /\ Returned /\ out.result.levels.entryMid > 0
  /\ out.result.levels.t2 > out.locals.maxT2Price
  /\ out.result.levels.t2 = Times(out.result.levels.t1, 105, 100)

\* C7: a call with fewer than 60 candles throws an error carrying 60 and the
\* actual count; a call with 60 candles or more returns a result.
C7_MinimumCandles ==
  (pc \in {"returned", "threw"}) =>
    IF Len(candles) < 60
    THEN pc = "threw" /\ out.threw /\ out.need = 60 /\ out.got = Len(candles)
    ELSE pc = "returned" /\ ~out.threw

C7_MinimumCandlesWitness == pc = "threw" /\ Len(candles) = 59 /\ out.got = 59

\* C8: the verdict is one of "Strong Buy", "Buy", "Wait", whichever of the
\* base verdict, upgrade, downgrade and override steps acted.
C8_VerdictLabels == Decided => out.verdict \in {"Strong Buy", "Buy", "Wait"}

\* a downgrade has acted on a Buy
C8_VerdictLabelsWitness ==
  Decided /\ out.base = "Buy" /\ out.trend = "Neutral" /\ out.verdict = "Wait"

\* C10: a flat series of 300 candles has ATR(14) = 0, RSI(14) = 100 and the
\* verdict "Wait".
C10_FlatSeries ==
  (Returned /\ Len(candles) = 300 /\ IsFlat(candles)) =>
    /\ out.locals.atr14 = 0
    /\ out.locals.rsi14Val = 100 * SCALE
    /\ out.result.verdict = "Wait"

C10_FlatSeriesWitness ==
  /\ Returned /\ Len(candles) = 300 /\ IsFlat(candles)
  /\ out.result.meta.indicators.atr14 = 0

\* the flat 300-candle series has been analysed
FlatAnalysed == Returned /\ Len(candles) = 300 /\ IsFlat(candles)

\* C11 as stated: on a flat series of 300 candles the trend score and the
\* momentum score both have an absolute value below 5.
C11_FlatScoresNearZero ==
  FlatAnalysed =>
    /\ Abs(out.locals.trendScore) < 5 * SCALE
    /\ Abs(out.locals.momentumScore) < 5 * SCALE

\* C11 as amended: on a flat series neither score is near 0.  RSI = 100 is
\* scored as overbought, so the momentum score is at most -34; the EMA cue is
\* 20 or more in size and is halved by the weak ADX, so the trend score is at
\* least 10 in absolute value.
C11_FlatScoresNotZero ==
  FlatAnalysed =>
    /\ Abs(out.locals.trendScore) >= 10 * SCALE
    /\ out.locals.momentumScore <= -34 * SCALE

C11_FlatScoresNotZeroWitness ==
  /\ FlatAnalysed
  /\ out.locals.trendScore = -10 * SCALE
  /\ out.locals.momentumScore = -42 * SCALE

\* a formatted price without its currency prefix
PriceText(fp) == [dp |-> fp.dp, value |-> fp.value]

\* everything analyseCandles returns and computes, except meta.quote,
\* meta.analysisTimestamp and the currency prefix of formatted prices
WithoutQuote(o) ==
  [locals |-> o.locals,
   verdict |-> o.result.verdict,
   levels |-> o.result.levels,
   entryZone |-> << PriceText(o.result.tradePlan.entryZone[1]),
                    PriceText(o.result.tradePlan.entryZone[2]) >>,
   stopLoss |-> PriceText(o.result.tradePlan.stopLoss),
   targets |-> << PriceText(o.result.tradePlan.target1), PriceText(o.result.tradePlan.target2),
                  PriceText(o.result.tradePlan.target3) >>,
   riskLevel |-> o.result.riskSummary.riskLevel,
   confidence |-> o.result.riskSummary.confidence,
   reasons |-> [i \in DOMAIN o.result.riskSummary.reasons |->
                  LET r == o.result.riskSummary.reasons[i]
                  IN IF r.kind = "Above support"
                     THEN [kind |-> r.kind, pct |-> r.pct, at |-> PriceText(r.at)]
                     ELSE r],
   meta |-> [f \in (DOMAIN o.result.meta) \ {"quote", "analysisTimestamp"} |->
               o.result.meta[f]]]

\* C12: for one candle array every pair label gives the same result up to
\* meta.quote and the currency prefix of the formatted prices (the time stamp
\* aside), and a label without a quote segment is quoted in USD.
C12_PairLabelNoninterference ==
  Returned =>
    /\ \A q \in AllPairLabels :
         WithoutQuote(analyseCandles(q, candles, now)) = WithoutQuote(out)
    /\ Len(pair.segments) < 2 => out.result.meta.quote = "USD"

\* a label quoted in EUR has been analysed, with a support price among the reasons
C12_PairLabelNoninterferenceWitness ==
  /\ Returned
  /\ out.result.meta.quote = "EUR"
  /\ out.result.tradePlan.stopLoss.quote = "EUR"
  /\ \E i \in DOMAIN out.result.riskSummary.reasons :
       out.result.riskSummary.reasons[i].kind = "Above support"

\* C13: with 60 to 199 candles the call returns, EMA200 is reported as 0, the
\* trend score is the one computed without the EMA-alignment cue, and the
\* first reason is the sentence on the unavailable EMA(200); from 200 candles
\* on no reason is that sentence.
C13_Ema200Unavailable ==
  (pc \in {"returned", "threw"} /\ Len(candles) >= 60) =>
    /\ Returned
    /\ LET reasons == out.result.riskSummary.reasons
       IN IF Len(candles) < 200
          THEN /\ out.result.meta.indicators.ema200 = 0
               /\ out.locals.trendScore =
                    calculateTrendScore(out.locals.lastPrice, NULL, NULL, NULL,
                                        out.locals.adxData, out.locals.structureData)
               /\ reasons[1].kind = "EMA200 unavailable"
          ELSE \A i \in DOMAIN reasons : reasons[i].kind # "EMA200 unavailable"

\* 199 candles: one short of EMA(200), with the other two EMAs available
C13_Ema200UnavailableWitness ==
  /\ Returned /\ Len(candles) = 199
  /\ ~IsNull(out.locals.ema20) /\ ~IsNull(out.locals.ema50)
  /\ out.result.riskSummary.reasons[1].kind = "EMA200 unavailable"

\* no close is below the close before it
NoLosses(cs) == \A i \in 2..Len(cs) : cs[i].close >= cs[i - 1].close

\* the last k candles all have high = low at one price
RangelessWindow(cs, k) ==
  \A i \in (Len(cs) - k + 1)..Len(cs) :
    cs[i].high = cs[Len(cs)].low /\ cs[i].low = cs[Len(cs)].low

\* C14: the edge cases give their sentinels.  RSI is 100 when there are no
\* losses, %K is 50 when the window's highest high equals its lowest low, %B
\* is 0.5 when the upper and lower band coincide, and ADX, +DI and -DI are 0
\* when every true range is 0; on a flat series all of them hold at once and
\* every operator of the analysis is defined (no division by zero).
C14_EdgeSentinels ==
  Returned =>
    /\ NoLosses(candles) =>
         out.locals.rsi14Val = 100 * SCALE /\ out.locals.rsi7Val = 100 * SCALE
    /\ RangelessWindow(candles, 14) => out.locals.stochData.k = 50 * SCALE
    /\ out.locals.bbData.upper = out.locals.bbData.lower =>
         out.locals.bbData.percentB = SCALE \div 2
    /\ IsFlat(candles) =>
         /\ out.locals.adxData.adx = 0
         /\ out.locals.adxData.plusDI = 0
         /\ out.locals.adxData.minusDI = 0

\* a flat series, where every sentinel is taken
C14_EdgeSentinelsWitness ==
  /\ Returned /\ IsFlat(candles)
  /\ out.locals.stochData.k = 50 * SCALE /\ out.locals.stochData.d = 50 * SCALE
  /\ out.locals.bbData.percentB = SCALE \div 2
  /\ out.locals.adxData.adx = 0
  /\ out.result.meta.indicators.rsi14 = 100 * SCALE

\* C15: each indicator function returns null exactly when its input is
\* shorter than its requirement: period values for sma, ema and
\* bollingerBands, period + 1 for rsi and atr, slow + signal for macd,
\* kPeriod + dPeriod for stochastic and 2 * period for adx.
C15_NullWhenShort ==
  Applied =>
    LET n == Len(candles)
        p == scores.period
    IN /\ IsNull(out.sma) <=> n < p
       /\ IsNull(out.ema) <=> n < p
       /\ IsNull(out.bollingerBands) <=> n < p
       /\ IsNull(out.rsi) <=> n < p + 1
       /\ IsNull(out.atr) <=> n < p + 1
       /\ IsNull(out.macd) <=> n < (p + 1) + scores.signal
       /\ IsNull(out.stochastic) <=> n < p + scores.signal
       /\ IsNull(out.adx) <=> n < 2 * p

\* exactly period values: sma, ema and bollingerBands answer, rsi and atr do not
C15_NullWhenShortWitness ==
  /\ Applied /\ Len(candles) = scores.period
  /\ ~IsNull(out.sma) /\ ~IsNull(out.ema) /\ ~IsNull(out.bollingerBands)
  /\ IsNull(out.rsi) /\ IsNull(out.atr) /\ IsNull(out.adx)

\* C16: for a series longer than the period, rsi lies in [0, 100], is 100
\* when the closes are strictly increasing and 0 when they are strictly
\* decreasing.
C16_RsiRangeAndExtremes ==
  (Applied /\ Len(candles) > scores.period) =>
    /\ ~IsNull(out.rsi)
    /\ 0 <= out.rsi.val /\ out.rsi.val <= 100 * SCALE
    /\ StrictlyIncreasingCloses(candles) => out.rsi.val = 100 * SCALE
    /\ StrictlyDecreasingCloses(candles) => out.rsi.val = 0

\* four strictly decreasing closes under period 2 give 0
C16_RsiRangeAndExtremesWitness ==
  /\ Applied /\ scores.period = 2 /\ Len(candles) = 4
  /\ StrictlyDecreasingCloses(candles) /\ out.rsi.val = 0

\* a mixed series gives a value strictly between the extremes
C16_RsiInteriorWitness ==
  /\ Applied /\ Len(candles) > scores.period
  /\ ~IsNull(out.rsi) /\ 0 < out.rsi.val /\ out.rsi.val < 100 * SCALE

\* C17: every candle returned by fetchOhlc has high >= low, close within
\* [low - eps, high + eps] and open, high, low, close, vwap and volume finite.
C17_FetchedCandlesValid ==
  Fetched =>
    \A i \in 1..Len(out.candles) :
      LET c == out.candles[i]
      IN /\ isFinite(c.open) /\ isFinite(c.high) /\ isFinite(c.low)
         /\ isFinite(c.close) /\ isFinite(c.vwap) /\ isFinite(c.volume)
         /\ c.high.units >= c.low.units
         /\ c.close.units >= c.low.units - CANDLE_CLOSE_EPS
         /\ c.close.units <= c.high.units + CANDLE_CLOSE_EPS

\* C17, the part the filter does enforce: the last row and every short or
\* violating row are dropped, and what stays is valid in every field but vwap
C17_FetchedCandlesValidButVwap ==
  Fetched =>
    /\ Len(out.candles) <= Max2(Len(candles) - 1, 0)
    /\ \A i \in 1..Len(out.candles) :
         LET c == out.candles[i]
         IN /\ isFinite(c.open) /\ isFinite(c.high) /\ isFinite(c.low)
            /\ isFinite(c.close) /\ isFinite(c.volume)
            /\ c.high.units >= c.low.units
            /\ c.close.units >= c.low.units - CANDLE_CLOSE_EPS
            /\ c.close.units <= c.high.units + CANDLE_CLOSE_EPS

\* a row whose close sits eps above its high is kept
C17_FetchedCandlesValidButVwapWitness ==
  /\ Fetched /\ Len(candles) = 3 /\ Len(out.candles) = 1
  /\ out.candles[1].close.units = out.candles[1].high.units + CANDLE_CLOSE_EPS

\* RSI(14) < 25, momentum > 0, trend label not bearish, trend score > -30
OversoldCase ==
  /\ Decided
  /\ scores.rsi14Val < 25 * SCALE
  /\ scores.momentumScore > 0
  /\ out.trend \notin {"Bear", "Strong Bear"}
  /\ scores.trendScore > -30 * SCALE

\* RSI(14) > 80, momentum < 0, trend label not bullish, trend score < 30
OverboughtCase ==
  /\ Decided
  /\ scores.rsi14Val > 80 * SCALE
  /\ scores.momentumScore < 0
  /\ out.trend \notin {"Bull", "Strong Bull"}
  /\ scores.trendScore < 30 * SCALE

\* C18: in the oversold case the verdict is one tier above the base verdict
\* (Wait to Buy, Buy to Strong Buy, Strong Buy stays); no override lowers it.
C18_OversoldUpgrade ==
  OversoldCase =>
    out.verdict = (CASE out.base = "Wait" -> "Buy"
                     [] out.base = "Buy" -> "Strong Buy"
                     [] OTHER -> "Strong Buy")

\* each tier is upgraded: a Wait becomes a Buy
C18_OversoldUpgradeWitness ==
  OversoldCase /\ out.base = "Wait" /\ out.verdict = "Buy"

\* a Buy becomes a Strong Buy
C18_OversoldUpgradeFromBuy ==
  OversoldCase /\ out.base = "Buy" /\ out.verdict = "Strong Buy"

\* a Strong Buy stays
C18_OversoldUpgradeFromStrongBuy ==
  OversoldCase /\ out.base = "Strong Buy" /\ out.verdict = "Strong Buy"

\* C19: in the overbought case the verdict is one tier below the base verdict
\* (Strong Buy to Buy, Buy to Wait, Wait stays), never two, the bearish
\* overrides included; the oversold and the overbought case never coincide.
C19_OverboughtDowngrade ==
  OverboughtCase =>
    /\ out.verdict = (CASE out.base = "Strong Buy" -> "Buy"
                        [] out.base = "Buy" -> "Wait"
                        [] OTHER -> "Wait")
    /\ ~OversoldCase

\* a Buy under a Bear label is downgraded once, the overrides evaluated after it
C19_OverboughtDowngradeWitness ==
  OverboughtCase /\ out.base = "Buy" /\ out.trend = "Bear" /\ out.verdict = "Wait"


\* 0.995 * lastPrice, as the entry-zone clamp computes it
ClampPrice == Times(out.locals.lastPrice, 995, 1000)

\* C20: in every result entryLow <= entryMid <= entryHigh; when the entry is
\* not a breakout entry and the composite score is positive, the whole zone
\* is at or below 0.995 * lastPrice, in the support, golden-pocket and
\* default branches alike.
C20_EntryZoneOrderedAndClamped ==
  Returned =>
    /\ out.result.levels.entryLow <= out.result.levels.entryMid
    /\ out.result.levels.entryMid <= out.result.levels.entryHigh
    /\ (~out.locals.isBreakoutEntry /\ out.locals.compositeScore > 0) =>
         /\ out.locals.branch \in {"support", "pocket", "default"}
         /\ out.result.levels.entryHigh <= ClampPrice
         /\ out.result.levels.entryMid <= ClampPrice
         /\ out.result.levels.entryLow <= ClampPrice

\* a support zone of a bullish composite that the clamp has cut to 0.995 * lastPrice
C20_EntryZoneOrderedAndClampedWitness ==
  /\ Returned /\ out.locals.branch = "support" /\ out.locals.compositeScore > 0
  /\ out.result.levels.entryHigh = ClampPrice
  /\ out.result.levels.entryLow < out.result.levels.entryHigh

\* the golden-pocket branch under a bullish composite
C20_PocketBranchReached ==
  Returned /\ out.locals.branch = "pocket" /\ out.locals.compositeScore > 0

\* the default branch under a bullish composite
C20_DefaultBranchReached ==
  Returned /\ out.locals.branch = "default" /\ out.locals.compositeScore > 0

\* the stop distance of the result, entryMid - stop
StopDistance == out.result.levels.entryMid - out.result.levels.stop

\* the branch that placed the stop: breakout, below support, or ATR-based
StopBranch ==
  IF out.locals.isBreakoutEntry THEN "breakout"
  ELSE IF ~IsNull(out.result.meta.support)
          /\ out.result.meta.support.val < out.result.levels.entryLow THEN "support"
  ELSE "atr"

\* C21: in every result with entryMid > 0 the stop lies at least 1.5% of
\* entryMid below entryMid, whichever branch placed it, and the risk used for
\* the targets is strictly positive.
C21_MinimumStopDistance ==
  (Returned /\ out.result.levels.entryMid > 0) =>
    /\ StopDistance >= Times(out.result.levels.entryMid, 15, 1000)
    /\ out.locals.risk = StopDistance
    /\ out.locals.risk > 0

\* the minimum distance has moved an ATR-based stop
C21_MinimumStopDistanceWitness ==
  /\ Returned /\ out.result.levels.entryMid > 0 /\ StopBranch = "atr"
  /\ out.locals.atr14 * 2 < Times(out.result.levels.entryMid, 15, 1000)
  /\ StopDistance = Times(out.result.levels.entryMid, 15, 1000)

\* a stop placed below support, further away than the minimum
C21_StopBelowSupportReached ==
  /\ Returned /\ out.result.levels.entryMid > 0 /\ StopBranch = "support"
  /\ StopDistance > Times(out.result.levels.entryMid, 15, 1000)

\* a breakout stop
C21_BreakoutStopReached ==
  Returned /\ out.result.levels.entryMid > 0 /\ StopBranch = "breakout"

\* C22: in every result entryMid + 1.2 * risk <= t1 <= entryMid + 1.5 * risk,
\* with risk = entryMid - stop.
C22_FirstTargetBand ==
  Returned =>
    /\ out.result.levels.entryMid + Times(StopDistance, 12, 10) <= out.result.levels.t1
    /\ out.result.levels.t1 <= out.result.levels.entryMid + Times(StopDistance, 15, 10)

\* a resistance between entryMid and 1.5R has pulled t1 down, and the 1.2R
\* floor has lifted it again
C22_FirstTargetBandWitness ==
  /\ Returned /\ ~IsNull(out.result.meta.resistance)
  /\ out.result.meta.resistance.val > out.result.levels.entryMid
  /\ out.result.meta.resistance.val < out.result.levels.entryMid + Times(StopDistance, 15, 10)
  /\ Times(out.result.meta.resistance.val, 995, 1000)
       < out.result.levels.entryMid + Times(StopDistance, 12, 10)
  /\ out.result.levels.t1 = out.result.levels.entryMid + Times(StopDistance, 12, 10)

\* t1 just under a resistance, strictly inside the band
C22_FirstTargetUnderResistance ==
  /\ Returned /\ ~IsNull(out.result.meta.resistance)
  /\ out.result.levels.t1 = Times(out.result.meta.resistance.val, 995, 1000)
  /\ out.result.levels.t1 > out.result.levels.entryMid + Times(StopDistance, 12, 10)
  /\ out.result.levels.t1 < out.result.levels.entryMid + Times(StopDistance, 15, 10)

\* higher highs plus higher lows over the last 4 swing highs and lows
BullishCount ==
  CountHigher(LastK(scores.swingHighs, 4)) + CountHigher(LastK(scores.swingLows, 4))

\* lower (or equal) highs plus lower (or equal) lows over the same points
BearishCount ==
  (Min2(Len(scores.swingHighs), 4) - 1) + (Min2(Len(scores.swingLows), 4) - 1) - BullishCount

EnoughSwings == Len(scores.swingHighs) >= 2 /\ Len(scores.swingLows) >= 2

\* C23 as stated: with at least 2 swing highs and 2 swing lows the structure
\* is Bullish when the bullish count is >= 1.5 times the bearish count,
\* Bearish when the bearish count is >= 1.5 times the bullish count, Mixed
\* otherwise; with fewer swing points it is Mixed with strength 0.
C23_StructureAtLeastOneAndAHalf ==
  Classified =>
    IF EnoughSwings
    THEN out.structureData.structure =
           (IF 2 * BullishCount >= 3 * BearishCount THEN "Bullish"
            ELSE IF 2 * BearishCount >= 3 * BullishCount THEN "Bearish"
            ELSE "Mixed")
    ELSE out.structureData = [structure |-> "Mixed", strength |-> 0]

\* C23, amended: the structure is Bullish when the bullish count is more than
\* 1.5 times the bearish count, Bearish when the bearish count is more than
\* 1.5 times the bullish count, Mixed otherwise (3 against 2 is Mixed).
C23_StructureMoreThanOneAndAHalf ==
  Classified =>
    IF EnoughSwings
    THEN out.structureData.structure =
           (IF 2 * BullishCount > 3 * BearishCount THEN "Bullish"
            ELSE IF 2 * BearishCount > 3 * BullishCount THEN "Bearish"
            ELSE "Mixed")
    ELSE out.structureData = [structure |-> "Mixed", strength |-> 0]

\* five swing highs and three swing lows, counts 3 against 2 over the last
\* four highs and the lows: Mixed
C23_StructureMoreThanOneAndAHalfWitness ==
  /\ Classified /\ Len(scores.swingHighs) = 5 /\ Len(scores.swingLows) = 3
  /\ BullishCount = 3 /\ BearishCount = 2
  /\ out.structureData.structure = "Mixed"

\* the buckets clusterLevels forms from the swing lows, and from the swing highs
LowBuckets ==
  FoldL(LAMBDA m, i : ClusterStep(m, out.locals.swingLows[i], out.locals.lastPrice),
        1, Len(out.locals.swingLows), << >>)

HighBuckets ==
  FoldL(LAMBDA m, i : ClusterStep(m, out.locals.swingHighs[i], out.locals.lastPrice),
        1, Len(out.locals.swingHighs), << >>)

\* buckets whose centroid is strictly below the last price, and strictly above
BucketsBelow == {i \in 1..Len(LowBuckets) : LowBuckets[i].level < out.locals.lastPrice}

BucketsAbove == {i \in 1..Len(HighBuckets) : HighBuckets[i].level > out.locals.lastPrice}

TotalCandlesAnalyzed == Min2(Len(candles), 100)

\* C24: support is null exactly when no swing-low bucket has its centroid
\* below the last price, and otherwise the centroid of a bucket with the
\* greatest touchCount * (0.5 + recency) among those below; resistance
\* likewise among the swing-high buckets above the last price.
C24_SupportResistanceTopRanked ==
  Returned =>
    /\ IsNull(out.result.meta.support) <=> BucketsBelow = {}
    /\ ~IsNull(out.result.meta.support) =>
         \E i \in BucketsBelow :
           /\ LowBuckets[i].level = out.result.meta.support.val
           /\ \A j \in BucketsBelow :
                BucketScore(LowBuckets[i], TotalCandlesAnalyzed)
                  >= BucketScore(LowBuckets[j], TotalCandlesAnalyzed)
    /\ IsNull(out.result.meta.resistance) <=> BucketsAbove = {}
    /\ ~IsNull(out.result.meta.resistance) =>
         \E i \in BucketsAbove :
           /\ HighBuckets[i].level = out.result.meta.resistance.val
           /\ \A j \in BucketsAbove :
                BucketScore(HighBuckets[i], TotalCandlesAnalyzed)
                  >= BucketScore(HighBuckets[j], TotalCandlesAnalyzed)

\* the support is a bucket that outranks a bucket formed before it, both
\* below the price
C24_SupportResistanceTopRankedWitness ==
  /\ Returned /\ ~IsNull(out.result.meta.support)
  /\ \E i, j \in BucketsBelow :
       /\ LowBuckets[i].level = out.result.meta.support.val
       /\ i > j
       /\ BucketScore(LowBuckets[i], TotalCandlesAnalyzed)
            > BucketScore(LowBuckets[j], TotalCandlesAnalyzed)

\* swing lows exist but none of their buckets lies below the price
C24_NoSupportBelow ==
  Returned /\ Len(out.locals.swingLows) > 0 /\ IsNull(out.result.meta.support)

\* a bucket with more than one touch is the resistance
C24_ClusteredResistance ==
  /\ Returned /\ ~IsNull(out.result.meta.resistance)
  /\ \E i \in BucketsAbove :
       HighBuckets[i].level = out.result.meta.resistance.val /\ HighBuckets[i].count > 1

\* the times the clock shows
ClockTimes == {i * (OHLC_TTL_MS \div 2) : i \in 0..MaxTicks}

\* the last response carries candles
Answered == pc = "proxy" /\ out.response.source \in {"cache", "upstream"}

\* C25: a cached entry is served only before its expiry, which lies 60 s
\* after the fetch that stored it; a response built from an upstream fetch
\* leaves the entry replaced, expiring 60 s later; a response holds the most
\* recent candles of the stored series, at most limit of them, and the
\* stored series is a whole upstream series, never cut to a limit.
C25_CacheTimeToLive ==
  pc = "proxy" =>
    /\ \A k \in CacheKeys :
         scores[k].present =>
           /\ scores[k].expiresAt <= now + OHLC_TTL_MS
           /\ \E t \in ClockTimes : t <= now /\ scores[k].data = UpstreamSeries(t)
    /\ out.response.source = "cache" => out.response.at < scores[out.response.key].expiresAt
    /\ out.response.source = "upstream" =>
         scores[out.response.key].expiresAt = out.response.at + OHLC_TTL_MS
    /\ Answered =>
         /\ Len(out.response.candles) <= out.response.limit
         /\ out.response.candles
              = SubSeq(scores[out.response.key].data,
                       Max2(1, Len(scores[out.response.key].data) - out.response.limit + 1),
                       Len(scores[out.response.key].data))

\* an entry stored at 30 s is served at 60 s cut to 2 candles, the stored
\* series being longer
C25_CacheTimeToLiveWitness ==
  /\ pc = "proxy" /\ out.response.source = "cache" /\ out.response.limit = 2
  /\ now = OHLC_TTL_MS /\ out.response.at = now
  /\ scores[out.response.key].expiresAt = OHLC_TTL_MS + OHLC_TTL_MS \div 2
  /\ Len(scores[out.response.key].data) > 2

\* an expired entry and a request for its key under way
C25_ExpiredEntryRefetched ==
  /\ pc = "proxy"
  /\ \E r \in Requests :
       /\ out.requests[r].pending
       /\ scores[out.requests[r].key].present
       /\ out.requests[r].sentAt >= scores[out.requests[r].key].expiresAt

\* number of selected pairs: min(number of pairs, batch limit)
SelectedPairs == Min2(scores.pairs, MaxPairsOf(scores.batch))

\* the entries of the results that carry pair p
EntriesOf(p) == {i \in 1..Len(out.results) : out.results[i].pair = p}

\* C26: each iteration of the loop leaves exactly one more result entry, that
\* of its pair, failed exactly when the fetch failed, the candles were missing
\* or fewer than 60, or the analysis threw, and the loop goes on; the
\* response has exactly one entry per selected pair and buySignals <=
\* successfulScans <= totalScanned.
C26_ScanIsolatesFailures ==
  /\ pc = "scanning" =>
       /\ Len(out.results) = out.done
       /\ out.done > 0 =>
            /\ out.results[out.done].pair = out.done
            /\ out.results[out.done].success
                 <=> OutcomeOf(scores.pattern, out.done) \in {"Strong Buy", "Buy", "Wait"}
  /\ pc = "responded" =>
       /\ out.done = SelectedPairs
       /\ out.totalScanned = SelectedPairs
       /\ Len(out.results) = SelectedPairs
       /\ \A p \in 1..SelectedPairs :
            /\ Cardinality(EntriesOf(p)) = 1
            /\ \A i \in EntriesOf(p) :
                 out.results[i].success
                   <=> OutcomeOf(scores.pattern, p) \in {"Strong Buy", "Buy", "Wait"}
       /\ out.buySignals <= out.successfulScans
       /\ out.successfulScans <= out.totalScanned

\* a quick scan of 41 pairs, every other one failing in the analysis: 40
\* entries, 20 of them successful
C26_ScanIsolatesFailuresWitness ==
  /\ pc = "responded" /\ scores.pairs = 41 /\ scores.batch = "quick"
  /\ scores.pattern = << "analysis throws", "Buy" >>
  /\ out.totalScanned = 40 /\ out.successfulScans = 20 /\ out.buySignals = 20

\* C27: in every result meta.swingHigh >= meta.swingLow, the retracements are
\* ordered level236 >= level382 >= level500 >= level618 >= level786 and the
\* extensions ext1272 <= ext1618 <= ext2000.
C27_FibonacciOrdered ==
  Returned =>
    LET fib == out.result.meta.fib
    IN /\ out.result.meta.swingHigh >= out.result.meta.swingLow
       /\ fib.level236 >= fib.level382 /\ fib.level382 >= fib.level500
       /\ fib.level500 >= fib.level618 /\ fib.level618 >= fib.level786
       /\ fib.ext1272 <= fib.ext1618 /\ fib.ext1618 <= fib.ext2000



\* the calls of fetchAssetPairs made so far
PairsCalls == {out.calls[k] : k \in 1..Len(out.calls)}

\* the upstream requests that have settled
SettledFetches == {i \in FetchIds : out.fetches[i].stage \in {"ok", "failed"}}

\* C28: at most one upstream AssetPairs request is in flight; a call made
\* while one is pending receives the promise of that request; the marker is
\* set exactly while a request is in flight, so it is cleared when the request
\* settles, with success or failure; a failed request leaves the cache as it
\* was; and after a success no request is sent, and every call is served the
\* stored data, until 24 h after the success.
C28_SingleFlight ==
  pc = "pairs" =>
    /\ Cardinality(InFlight) <= 1
    /\ \A c \in PairsCalls :
         c.pending # {} => c.kind = "promise" /\ c.pending = {c.id}
    /\ out.promise.active <=> InFlight # {}
    /\ out.promise.active => InFlight = {out.promise.id}
    /\ \A i \in SettledFetches :
         out.fetches[i].stage = "failed" =>
           out.fetches[i].cacheAfter = out.fetches[i].cacheBefore
    /\ \A i \in SettledFetches :
         out.fetches[i].stage = "ok" =>
           /\ \A j \in FetchIds :
                (i < j /\ out.fetches[j].stage # "unsent") =>
                  out.fetches[j].sentAt >= out.fetches[i].settledAt + ASSET_PAIRS_TTL_MS
           /\ \A c \in PairsCalls :
                (c.kind = "promise" /\ i < c.id) =>
                  c.at >= out.fetches[i].settledAt + ASSET_PAIRS_TTL_MS
    /\ \A c \in PairsCalls :
         c.kind = "cache" =>
           /\ c.id \in SettledFetches
           /\ out.fetches[c.id].stage = "ok"
           /\ out.fetches[c.id].settledAt <= c.at
           /\ c.at < out.fetches[c.id].settledAt + ASSET_PAIRS_TTL_MS

\* a call joined a pending request, that request failed, a later call sent
\* the retry, the retry succeeded and the next call was served from the cache
C28_SingleFlightWitness ==
  /\ pc = "pairs"
  /\ Len(out.calls) >= 4
  /\ out.calls[2].pending = {1} /\ out.calls[2].id = 1
  /\ out.fetches[1].stage = "failed"
  /\ out.calls[3].kind = "promise" /\ out.calls[3].id = 2 /\ out.calls[3].pending = {}
  /\ out.fetches[2].stage = "ok"
  /\ out.calls[4].kind = "cache" /\ out.calls[4].id = 2

\* a request was sent once 24 h had passed since the stored success
C28_RefetchedAfterADay ==
  /\ pc = "pairs"
  /\ \E i, j \in FetchIds :
       /\ i < j
       /\ out.fetches[i].stage = "ok"
       /\ out.fetches[j].stage # "unsent"
       /\ out.fetches[j].sentAt = out.fetches[i].settledAt + ASSET_PAIRS_TTL_MS


\* RSI(14) < 25, momentum > 0 and a trend label that is not bearish
UpgradeConditions ==
  /\ scores.rsi14Val < 25 * SCALE
  /\ scores.momentumScore > 0
  /\ out.trend \notin {"Bear", "Strong Bear"}

\* C29: a verdict other than Wait is returned only when the composite score
\* is >= 20 or the oversold upgrade conditions hold, and Strong Buy only when
\* the composite is >= 50, or >= 20 together with the upgrade conditions.
C29_VerdictNeedsScoreOrUpgrade ==
  Decided =>
    /\ out.verdict # "Wait" =>
         (out.compositeScore >= 20 * SCALE \/ UpgradeConditions)
    /\ out.verdict = "Strong Buy" =>
         \/ out.compositeScore >= 50 * SCALE
         \/ (out.compositeScore >= 20 * SCALE /\ UpgradeConditions)

\* a Buy below 20 that the upgrade alone produced
C29_VerdictNeedsScoreOrUpgradeWitness ==
  /\ Decided
  /\ out.verdict = "Buy"
  /\ out.compositeScore < 20 * SCALE
  /\ UpgradeConditions

\* a Strong Buy below 50 that the upgrade produced from a Buy
C29_StrongBuyByUpgrade ==
  /\ Decided
  /\ out.verdict = "Strong Buy"
  /\ out.compositeScore >= 20 * SCALE /\ out.compositeScore < 50 * SCALE
  /\ UpgradeConditions

\* a Buy that the composite alone produced
C29_BuyByScore ==
  /\ Decided
  /\ out.verdict = "Buy"
  /\ out.compositeScore >= 20 * SCALE
  /\ ~UpgradeConditions


\* C30: for every candle array of length >= 60, ema(20), ema(50), rsi(14),
\* rsi(7), atr(14), macd(12,26,9), stochastic(14,3), bollingerBands(20,2) and
\* adx(14) return a value, so analyseCandles uses none of their fallbacks.
C30_SixtyCandlesSuffice ==
  Returned =>
    /\ Len(candles) >= MIN_CANDLES
    /\ ~IsNull(out.locals.ema20) /\ ~IsNull(out.locals.ema50)
    /\ ~IsNull(rsi(Closes(candles), 14)) /\ ~IsNull(rsi(Closes(candles), 7))
    /\ ~IsNull(atr(candles, 14))
    /\ ~IsNull(out.locals.macdData) /\ ~IsNull(out.locals.stochData)
    /\ ~IsNull(out.locals.bbData) /\ ~IsNull(out.locals.adxData)

\* a result from exactly 60 candles: every indicator but EMA200 has a value
C30_SixtyCandlesSufficeWitness ==
  /\ Returned
  /\ Len(candles) = MIN_CANDLES
  /\ ~IsNull(out.locals.macdData) /\ ~IsNull(out.locals.adxData)
  /\ ~IsNull(out.locals.ema50)
  /\ IsNull(out.locals.ema200)

====
